---- MODULE Spec2Model ----
(***************************************************************************)
(* A model of nsf/shell-util: the quoting engine (quoteString), the        *)
(* command template compiler (quote) and the composable tag function       *)
(* (wrapTagFunction / map).                                                *)
(*                                                                         *)
(* Text is modelled as a sequence of one-character strings, so that the    *)
(* regular-expression replacements of the source are computed character    *)
(* by character.                                                           *)
(***************************************************************************)
EXTENDS Integers, Sequences, FiniteSets, TLC

VARIABLES
    s,          \* quoteString: the argument
    quoted,     \* quoteString: the returned text
    qsPc,       \* quoteString: "call" before the call, "done" after it
    pieces,     \* quote: the literal fragments of the template
    args,       \* quote: the interpolated values
    i,          \* quote: the loop index
    result,     \* quote: the accumulated result
    quotePc,    \* quote: "call" before the call, "done" after it
    nodes,      \* map: the tag functions built so far; nodes[1] is sh
    call,       \* map: the invocation in flight, or the last one
    log,        \* map: the stages the invocation has run, in order
    outcome,    \* map: what the caller of the invocation received
    frames,     \* action: the calls of action, frames[d + 1] made by the work of frames[d]
    stdout,     \* action: what the calls have written to standard output, in order
    proc,       \* executor: the invocation of a plain tag function
    pipe,       \* executor: the pipes between an invocation and its subprocess
    calls,      \* map: two invocations of one tag function, each with its log and outcome
    spin        \* spinner: the closure of wrapWithSpinnerPrinter and the calls made

qsVars == <<s, quoted, qsPc>>
quoteVars == <<pieces, args, i, result, quotePc>>
mapVars == <<nodes, call, log, outcome>>
actionVars == <<frames, stdout>>
execVars == <<proc>>
pipeVars == <<pipe>>
callsVars == <<calls>>
spinVars == <<spin>>
vars == <<qsVars, quoteVars, mapVars, actionVars, execVars, pipeVars, callsVars, spinVars>>

\* What the steps of one part leave unchanged of the other parts.
notQsVars == <<quoteVars, mapVars, actionVars, execVars, pipeVars, callsVars, spinVars>>
notQuoteVars == <<qsVars, mapVars, actionVars, execVars, pipeVars, callsVars, spinVars>>
notMapVars == <<qsVars, quoteVars, actionVars, execVars, pipeVars, callsVars, spinVars>>
notActionVars == <<qsVars, quoteVars, mapVars, execVars, pipeVars, callsVars, spinVars>>
notExecVars == <<qsVars, quoteVars, mapVars, actionVars, pipeVars, callsVars, spinVars>>
notPipeVars == <<qsVars, quoteVars, mapVars, actionVars, execVars, callsVars, spinVars>>
notCallsVars == <<qsVars, quoteVars, mapVars, actionVars, execVars, pipeVars, spinVars>>
notSpinVars == <<qsVars, quoteVars, mapVars, actionVars, execVars, pipeVars, callsVars>>

\* The parts of the state that a specification of another part leaves idle.
IdleQuote ==
    /\ pieces = <<>> /\ args = <<>> /\ i = 0 /\ result = <<>> /\ quotePc = "idle"

IdleQuoteString == s = <<>> /\ quoted = <<>> /\ qsPc = "idle"

IdleAction == frames = <<>> /\ stdout = <<>>

\* The value undefined: an option left out, a function returning nothing.
Undefined == "undefined"

NoResult ==
    [code |-> 0, stdout |-> <<>>, stderr |-> <<>>, cmd |-> <<>>,
     elapsedMilliseconds |-> 0, trimmed |-> Undefined]

\* No ShellError; a ShellError holds the result it was constructed with.
NoShellError == [name |-> "none", result |-> NoResult]

IdleProc ==
    [pc |-> "idle",
     opt |-> [stdin |-> Undefined, trim |-> Undefined, shellArgs |-> Undefined],
     mode |-> "utf-8",
     fn |-> "plain",            \* "plain": made by shOpt; "shAction": sh.map of action.ts;
                                \* "mapped": a chain of map calls on a plain function
     pres |-> <<>>,             \* of each layer of the chain, in attach order: p.pre is given
     q |-> <<>>,                \* the command quote(...args) returned
     cmd |-> <<>>,              \* the parameter cmd of the function execOpt made
     argv |-> <<>>,             \* the arguments the shell was spawned with
     spawns |-> 0,              \* how often the shell was spawned
     stdinWritten |-> <<>>,     \* the bytes written to the subprocess's input
     stdinOpen |-> FALSE,       \* the subprocess's input stream is open
     failure |-> "none",        \* what made the call reject: "spawn", "write", "close", "output"
     exitCode |-> 0,            \* the exit code of the subprocess
     binary |-> NoResult,       \* what the function execOpt made returned
     result |-> NoResult,       \* the same, as text or not: what exec of shOpt returned
     settled |-> "none",        \* "returned" or "raised": how the call ended for the caller
     value |-> NoResult,        \* the result the caller received, when it returned
     error |-> NoShellError]    \* the ShellError the caller received, if any

IdleExec == proc = IdleProc

IdlePipe ==
    [pc |-> "idle",
     payload |-> [supplied |-> FALSE, size |-> 0],     \* opt.stdin
     left |-> 0,                \* bytes of the payload not yet written
     written |-> 0,             \* bytes of the payload written to the input pipe
     inBuf |-> 0,               \* bytes in the input pipe
     inOpen |-> FALSE,          \* the executor's end of the input pipe is open
     outBuf |-> 0,              \* bytes in the output pipe
     collected |-> 0,           \* bytes cp.output() has read
     policy |-> "reader",       \* the subprocess: see Policies
     toWrite |-> 0,             \* bytes the subprocess has yet to write
     consumed |-> 0,            \* bytes the subprocess has read
     produced |-> 0,            \* bytes the subprocess has written
     eof |-> FALSE,             \* the subprocess has read end-of-file
     exited |-> FALSE]

IdlePipes == pipe = IdlePipe

\* const spinnerFrames = ["|", "/", "-", "\\"]
spinnerFrames == <<"|", "/", "-", "\\">>

IdleSpinnerCall ==
    [pc |-> "idle",
     started |-> FALSE,         \* the pre stage of the spinner ran
     postRan |-> FALSE,         \* the post stage of the spinner ran
     exceptions |-> 0,          \* how often finalize printed the EXCEPTION line
     failure |-> "none",        \* what rejected: "exec" or "inner post"
     settled |-> "none"]        \* "returned" or "raised"

IdleSpin ==
    [wrapped |-> "none",        \* what wrapWithSpinnerPrinter was called with
     timeout |-> 0,             \* let timeout: the timer it names, 0 if undefined
     pending |-> {},            \* the timers that are set and have not fired
     nextId |-> 1,
     frame |-> 0,               \* let frame
     overlapped |-> FALSE,      \* two calls were in flight at some time
     calls |-> <<IdleSpinnerCall, IdleSpinnerCall>>]

IdleSpinner == spin = IdleSpin

----------------------------------------------------------------------------
(* Bounds *)

MaxLen == 4          \* longest text handed to quoteString on its own
MaxArgs == 2         \* most placeholders in a template
MaxLiteral == 4      \* most literal characters in a template
MaxNodes == 4        \* most tag functions: sh and those built from it by map
MaxDepth == 2        \* deepest nesting of calls of action
PipeCapacity == 1    \* bytes a pipe holds
MaxPayload == 3      \* most bytes of a stdin payload
MaxOutput == 3       \* most bytes a subprocess writes of its own
MaxLayers == 2       \* most map calls behind a tag function invoked twice at once
MaxTimers == 4       \* most timers the spinner sets

----------------------------------------------------------------------------
(* Characters *)

SQ == "'"
DQ == "\""
SP == " "

\* The characters the inputs are built from: one safe letter, one safe
\* symbol, both quote characters, the space and two shell metacharacters.
Alphabet == {"a", "-", SQ, DQ, SP, "$", "\\"}

\* Up(S, n): every sequence over S of length at most n.
Up(S, n) == UNION {[1..k -> S] : k \in 0..n}

\* The character class of safeShellCharsRE: [A-Za-z0-9,:=_\.\/\-]
SafeChars ==
    {"A","B","C","D","E","F","G","H","I","J","K","L","M",
     "N","O","P","Q","R","S","T","U","V","W","X","Y","Z",
     "a","b","c","d","e","f","g","h","i","j","k","l","m",
     "n","o","p","q","r","s","t","u","v","w","x","y","z",
     "0","1","2","3","4","5","6","7","8","9",
     ",", ":", "=", "_", ".", "/", "-"}

----------------------------------------------------------------------------
(* quoteString *)

\* safeShellCharsRE.test(t): one or more characters, all of the safe class.
safeShellCharsRE_narrow(t) == Len(t) > 0 /\ \A k \in 1..Len(t) : t[k] \in SafeChars \ {"-"}
safeShellCharsRE(t) == Len(t) > 0 /\ \A k \in 1..Len(t) : t[k] \in SafeChars

\* The length of the maximal run of single quotes that t starts with.
RECURSIVE QuoteRun(_)
QuoteRun(t) == IF t # <<>> /\ Head(t) = SQ THEN 1 + QuoteRun(Tail(t)) ELSE 0

\* t.replace(singleQuoteSpanRE, (m) => `'"${m}"'`): every maximal run of
\* single quotes is closed out of the single-quoted span and re-opened as a
\* double-quoted span holding the run.
\* A replacement that leaves the runs of single quotes inside the
\* single-quoted span.
replaceSingleQuoteSpans_kept(t) == t

RECURSIVE replaceSingleQuoteSpans(_)
replaceSingleQuoteSpans(t) ==
    IF t = <<>> THEN <<>>
    ELSE IF Head(t) = SQ
         THEN LET n == QuoteRun(t)
              IN  <<SQ, DQ>> \o SubSeq(t, 1, n) \o <<DQ, SQ>>
                    \o replaceSingleQuoteSpans(SubSeq(t, n + 1, Len(t)))
         ELSE <<Head(t)>> \o replaceSingleQuoteSpans(Tail(t))

\* t.replace(/^''/, "")
stripLeadingEmptyPair(t) ==
    IF Len(t) >= 2 /\ t[1] = SQ /\ t[2] = SQ THEN SubSeq(t, 3, Len(t)) ELSE t

\* t.replace(/''$/, "")
stripTrailingEmptyPair(t) ==
    IF Len(t) >= 2 /\ t[Len(t) - 1] = SQ /\ t[Len(t)] = SQ
    THEN SubSeq(t, 1, Len(t) - 2) ELSE t

\* quoteString without its first line (the empty text is not special-cased).
quoteString_noEmptyCase(t) ==
    IF safeShellCharsRE(t) THEN t
    ELSE stripTrailingEmptyPair(stripLeadingEmptyPair(
             <<SQ>> \o replaceSingleQuoteSpans(t) \o <<SQ>>))

\* quoteString, were lines 234 and 235 left out.
quoteString_keepsEmptyPairs(t) ==
    IF t = <<>> THEN <<SQ, SQ>>
    ELSE IF safeShellCharsRE(t) THEN t
    ELSE <<SQ>> \o replaceSingleQuoteSpans(t) \o <<SQ>>

quoteString(t) ==
    IF t = <<>> THEN <<SQ, SQ>>
    ELSE IF safeShellCharsRE(t) THEN t
    ELSE stripTrailingEmptyPair(stripLeadingEmptyPair(
             <<SQ>> \o replaceSingleQuoteSpans(t) \o <<SQ>>))

----------------------------------------------------------------------------
(* Argument values: ShellArgumentType | ShellArgumentType[]                *)

Str(t) == [t |-> "string", str |-> t, num |-> 0, bool |-> FALSE, elems |-> <<>>]
Num(n) == [t |-> "number", str |-> <<>>, num |-> n, bool |-> FALSE, elems |-> <<>>]
Bool(b) == [t |-> "boolean", str |-> <<>>, num |-> 0, bool |-> b, elems |-> <<>>]
Arr(es) == [t |-> "array", str |-> <<>>, num |-> 0, bool |-> FALSE, elems |-> es]

isArray(a) == a.t = "array"

DigitChars == <<"0", "1", "2", "3", "4", "5", "6", "7", "8", "9">>

RECURSIVE Digits(_)
Digits(n) ==
    IF n < 10 THEN <<DigitChars[n + 1]>>
    ELSE Digits(n \div 10) \o <<DigitChars[(n % 10) + 1]>>

\* String(v) of JavaScript, for texts, integers and booleans.
String(v) ==
    CASE v.t = "string" -> v.str
      [] v.t = "number" -> IF v.num < 0 THEN <<"-">> \o Digits(0 - v.num)
                           ELSE Digits(v.num)
      [] v.t = "boolean" -> IF v.bool THEN <<"t", "r", "u", "e">>
                            ELSE <<"f", "a", "l", "s", "e">>

----------------------------------------------------------------------------
(* quote *)

\* parts.join("") : a mutant of join that leaves the separator out.
RECURSIVE join_noSeparator(_)
join_noSeparator(parts) ==
    IF parts = <<>> THEN <<>>
    ELSE Head(parts) \o join_noSeparator(Tail(parts))

\* parts.join(" ")
RECURSIVE join(_)
join(parts) ==
    IF parts = <<>> THEN <<>>
    ELSE IF Len(parts) = 1 THEN Head(parts)
    ELSE Head(parts) \o <<SP>> \o join(Tail(parts))

\* a.map((v) => quoteString(String(v))).join(" ")
quoteArray(a) == join([k \in 1..Len(a.elems) |-> quoteString(String(a.elems[k]))])

\* One iteration of the loop of quote, without the else branch that takes a
\* trailing space from the result.
quoteIteration_noTrailing(res, a, p) ==
    LET aarg == IF isArray(a) THEN quoteArray(a) ELSE <<>>
        isEmptyArrayArg == isArray(a) /\ Len(aarg) = 0
        res1 == IF isArray(a)
                THEN (IF isEmptyArrayArg THEN res ELSE res \o aarg)
                ELSE res \o quoteString(String(a))
    IN  IF isEmptyArrayArg /\ Len(p) > 0 /\ p[1] = SP
        THEN res1 \o Tail(p)
        ELSE res1 \o p

\* One iteration of the loop of quote: res is the result so far, a the
\* argument args[i] and p the fragment pieces[i + 1]; the value is the
\* result at the end of the iteration.
quoteIteration(res, a, p) ==
    LET aarg == IF isArray(a) THEN quoteArray(a) ELSE <<>>
        isEmptyArrayArg == isArray(a) /\ Len(aarg) = 0
        res1 == IF isArray(a)
                THEN (IF isEmptyArrayArg THEN res ELSE res \o aarg)
                ELSE res \o quoteString(String(a))
    IN  IF isEmptyArrayArg
        THEN IF Len(p) > 0 /\ p[1] = SP
             THEN res1 \o Tail(p)
             ELSE IF Len(res1) > 0 /\ res1[Len(res1)] = SP
                  THEN SubSeq(res1, 1, Len(res1) - 1) \o p
                  ELSE res1 \o p
        ELSE res1 \o p

\* The result after k iterations of the first loop.
RECURSIVE quoteLoop(_, _, _)
quoteLoop(ps, as, k) ==
    IF k = 0 THEN ps[1]
    ELSE quoteIteration(quoteLoop(ps, as, k - 1), as[k], ps[k + 1])

\* The second loop: the fragments from index k (counted from 1) on.
RECURSIVE restOfPieces(_, _)
restOfPieces(ps, k) ==
    IF k > Len(ps) THEN <<>> ELSE ps[k] \o restOfPieces(ps, k + 1)

quote(ps, as) == quoteLoop(ps, as, Len(as)) \o restOfPieces(ps, Len(as) + 2)

----------------------------------------------------------------------------
(* wrapTagFunction and map                                                 *)
(*                                                                         *)
(* A node is one call of wrapTagFunction: nodes[1] is the plain tag        *)
(* function sh, every other node was returned by parent.map(p).  Of p the  *)
(* node records whether pre and finalize are given (post always is); the   *)
(* field finalizers is the third argument of wrapTagFunction, a list of    *)
(* the node numbers whose finalize it holds, 0 standing for undefined.     *)

BaseNode == [parent |-> 0, pre |-> FALSE, fin |-> FALSE, finalizers |-> <<>>]

\* [...finalizers, p.finalize]
newFinalizers(ns, f, hasFin) ==
    ns[f].finalizers \o <<IF hasFin THEN Len(ns) + 1 ELSE 0>>

\* The layers of node n in attach order: the map calls that built it.
RECURSIVE Path(_, _)
Path(ns, n) == IF ns[n].parent = 0 THEN <<>> ELSE Append(Path(ns, ns[n].parent), n)

Reverse(x) == [k \in 1..Len(x) |-> x[Len(x) + 1 - k]]

\* The order in which an invocation of node n reaches the pre stages, were
\* the innermost layer applied first.
preStages_attachOrder(ns, n) == Path(ns, n)

\* The order in which an invocation of node n reaches the pre stages:
\* p.pre(q) of n itself, then, inside exec, p.pre(cmd) of its parent, and
\* so on down to sh.
preStages(ns, n) == Reverse(Path(ns, n))

\* The order in which the post stages are reached, were the outermost
\* layer's post applied first.
postStages_outermostFirst(ns, n) == Reverse(Path(ns, n))

\* The order in which the post stages are reached: each nestedExec applies
\* its p.post to what the exec inside it returned, the function of n last.
postStages(ns, n) == Path(ns, n)

\* The finally block of n, without the loop over the inherited finalizers.
finallyList_ownOnly(ns, n) == <<IF ns[n].fin THEN n ELSE 0>>

\* The finally block of the function of node n: the finalizers of the
\* receiver of map, then p.finalize.
finallyList(ns, n) ==
    ns[ns[n].parent].finalizers \o <<IF ns[n].fin THEN n ELSE 0>>

Compiled == <<0>>                   \* the command quote(...args) returned
preOf(k, cmd) == Append(cmd, k)     \* p.pre of node k, when it returns
postOf(k, res) == [res EXCEPT !.trail = Append(@, k)]   \* p.post of node k

NoErr == [stage |-> "none", node |-> 0]
Err(st, k) == [stage |-> st, node |-> k]
NoRes == [code |-> 0, cmd |-> <<>>, trail |-> <<>>]
NoOutcome == [kind |-> "none", value |-> NoRes, err |-> NoErr]
IdleCall ==
    [node |-> 0, pc |-> "idle", k |-> 0, cmd |-> <<>>, res |-> NoRes, err |-> NoErr]

\* An invocation that was not made yet, with its own log and outcome.
IdleInvocation ==
    [node |-> 0, pc |-> "idle", k |-> 0, cmd |-> <<>>, res |-> NoRes, err |-> NoErr,
     log |-> <<>>, outcome |-> NoOutcome,
     overlapped |-> FALSE]      \* the other invocation was in flight at some time

IdleCalls == calls = <<IdleInvocation, IdleInvocation>>

Entry(st, k, in, r) == [stage |-> st, node |-> k, input |-> in, raised |-> r]

ExitCodes == {0, 1}

IdleMap ==
    /\ nodes = <<BaseNode>>
    /\ call = IdleCall
    /\ log = <<>>
    /\ outcome = NoOutcome

InitMap ==
    /\ IdleMap
    /\ IdleQuoteString
    /\ IdleQuote
    /\ IdleAction
    /\ IdleExec
    /\ IdlePipes
    /\ IdleCalls
    /\ IdleSpinner

\* The nodes after f.map(p), were p.finalize pushed onto the receiver's own
\* list of finalizers and that list handed on.
mapNodes_sharedList(ns, f, hasPre, hasFin) ==
    LET fz == newFinalizers(ns, f, hasFin)
    IN  Append([ns EXCEPT ![f].finalizers = fz],
               [parent |-> f, pre |-> hasPre, fin |-> hasFin, finalizers |-> fz])

\* The nodes after f.map(p): wrapTagFunction is called with a new function,
\* nestedExec and a fresh list of finalizers.
mapNodes(ns, f, hasPre, hasFin) ==
    Append(ns, [parent |-> f, pre |-> hasPre, fin |-> hasFin,
                finalizers |-> newFinalizers(ns, f, hasFin)])

\* g = f.map(p): a new node; nodes built before are left as they are.
Map(f, hasPre, hasFin) ==
    /\ call.pc \in {"idle", "done"}
    /\ Len(nodes) < MaxNodes
    /\ nodes' = mapNodes(nodes, f, hasPre, hasFin)
    /\ UNCHANGED <<call, log, outcome, notMapVars>>

\* The tag function of node n is called: the template is compiled.
Invoke(n) ==
    /\ call.pc \in {"idle", "done"}
    /\ call' = [IdleCall EXCEPT !.node = n, !.cmd = Compiled, !.k = 1,
                                !.pc = IF n = 1 THEN "exec" ELSE "pre"]
    /\ log' = <<>>
    /\ outcome' = NoOutcome
    /\ UNCHANGED <<nodes, notMapVars>>

\* After the pre stage at position call.k: the next one, or the executor.
afterPre(c) ==
    IF c.k = Len(preStages(nodes, c.node))
    THEN [c EXCEPT !.pc = "exec", !.k = 1]
    ELSE [c EXCEPT !.k = @ + 1]

\* The error e leaves the try block: the finally block is entered.  (The
\* function of sh has no try block: the caller receives e at once.)
raise(c, e) ==
    [c EXCEPT !.err = e, !.k = 1,
              !.pc = IF c.node = 1 THEN "return" ELSE "finally"]

\* p.pre ? p.pre(cmd) : cmd  -- no pre is given
PreAbsent ==
    /\ call.pc = "pre"
    /\ ~nodes[preStages(nodes, call.node)[call.k]].pre
    /\ call' = afterPre(call)
    /\ UNCHANGED <<nodes, log, outcome, notMapVars>>

\* p.pre(cmd) returns
PreReturns ==
    /\ call.pc = "pre"
    /\ LET k == preStages(nodes, call.node)[call.k] IN
          /\ nodes[k].pre
          /\ call' = afterPre([call EXCEPT !.cmd = preOf(k, call.cmd)])
          /\ log' = Append(log, Entry("pre", k, call.cmd, FALSE))
    /\ UNCHANGED <<nodes, outcome, notMapVars>>

\* p.pre(cmd) throws
PreRaises ==
    /\ call.pc = "pre"
    /\ LET k == preStages(nodes, call.node)[call.k] IN
          /\ nodes[k].pre
          /\ call' = raise(call, Err("pre", k))
          /\ log' = Append(log, Entry("pre", k, call.cmd, TRUE))
    /\ UNCHANGED <<nodes, outcome, notMapVars>>

\* After the executor returned res: the post stages, or, for sh, the caller.
afterExec(c, res) ==
    IF c.node = 1 THEN [c EXCEPT !.res = res, !.pc = "return"]
    ELSE [c EXCEPT !.res = res, !.pc = "post", !.k = 1]

\* await exec(cmd) at the bottom of the chain: the subprocess ran and
\* exited with some code.
ExecReturns(code) ==
    /\ call.pc = "exec"
    /\ call' = afterExec(call, [code |-> code, cmd |-> call.cmd, trail |-> <<>>])
    /\ log' = Append(log, Entry("exec", 1, call.cmd, FALSE))
    /\ UNCHANGED <<nodes, outcome, notMapVars>>

\* The executor rejects: the shell could not be spawned, or an I/O error.
ExecFails ==
    /\ call.pc = "exec"
    /\ call' = raise(call, Err("exec", 1))
    /\ log' = Append(log, Entry("exec", 1, call.cmd, TRUE))
    /\ UNCHANGED <<nodes, outcome, notMapVars>>

\* p.post(result) returns
PostReturns ==
    /\ call.pc = "post"
    /\ LET k == postStages(nodes, call.node)[call.k] IN
          /\ call' = IF call.k = Len(postStages(nodes, call.node))
                     THEN [call EXCEPT !.res = postOf(k, call.res),
                                       !.pc = "finally", !.k = 1]
                     ELSE [call EXCEPT !.res = postOf(k, call.res), !.k = @ + 1]
          /\ log' = Append(log, Entry("post", k, call.res.trail, FALSE))
    /\ UNCHANGED <<nodes, outcome, notMapVars>>

\* p.post(result) throws
PostRaises ==
    /\ call.pc = "post"
    /\ LET k == postStages(nodes, call.node)[call.k] IN
          /\ call' = raise(call, Err("post", k))
          /\ log' = Append(log, Entry("post", k, call.res.trail, TRUE))
    /\ UNCHANGED <<nodes, outcome, notMapVars>>

\* After the finalizer at position call.k: the next one, or the end of the
\* finally block.
afterFinalize(c) ==
    IF c.k = Len(finallyList(nodes, c.node))
    THEN [c EXCEPT !.pc = "return"]
    ELSE [c EXCEPT !.k = @ + 1]

\* f?.() -- the entry is undefined
FinalizeAbsent ==
    /\ call.pc = "finally"
    /\ finallyList(nodes, call.node)[call.k] = 0
    /\ call' = afterFinalize(call)
    /\ UNCHANGED <<nodes, log, outcome, notMapVars>>

\* f() returns
FinalizeReturns ==
    /\ call.pc = "finally"
    /\ LET k == finallyList(nodes, call.node)[call.k] IN
          /\ k # 0
          /\ call' = afterFinalize(call)
          /\ log' = Append(log, Entry("finalize", k, <<>>, FALSE))
    /\ UNCHANGED <<nodes, outcome, notMapVars>>

\* f() throws: the finally block is left at once and its error replaces
\* the pending result or error.
FinalizeRaises ==
    /\ call.pc = "finally"
    /\ LET k == finallyList(nodes, call.node)[call.k] IN
          /\ k # 0
          /\ call' = [call EXCEPT !.err = Err("finalize", k), !.pc = "return"]
          /\ log' = Append(log, Entry("finalize", k, <<>>, TRUE))
    /\ UNCHANGED <<nodes, outcome, notMapVars>>

\* The promise of the invocation settles: the caller receives the value or
\* the error.
Return ==
    /\ call.pc = "return"
    /\ outcome' = IF call.err = NoErr
                  THEN [kind |-> "returned", value |-> call.res, err |-> NoErr]
                  ELSE [kind |-> "raised", value |-> NoRes, err |-> call.err]
    /\ call' = [call EXCEPT !.pc = "done"]
    /\ UNCHANGED <<nodes, log, notMapVars>>

NextMap ==
    \/ \E f \in 1..Len(nodes), hasPre \in BOOLEAN, hasFin \in BOOLEAN :
          Map(f, hasPre, hasFin)
    \/ \E n \in 1..Len(nodes) : Invoke(n)
    \/ PreAbsent
    \/ PreReturns
    \/ PreRaises
    \/ \E code \in ExitCodes : ExecReturns(code)
    \/ ExecFails
    \/ PostReturns
    \/ PostRaises
    \/ FinalizeAbsent
    \/ FinalizeReturns
    \/ FinalizeRaises
    \/ Return

SpecMap == InitMap /\ [][NextMap]_vars

----------------------------------------------------------------------------
(* Two invocations of one tag function in flight                           *)
(*                                                                         *)
(* The functions wrapTagFunction makes are async: an invocation is         *)
(* suspended at await exec(...) (lines 403 and 408) while the other one    *)
(* runs.  Each invocation has its own q, cmd and result; the list of       *)
(* finalizers and p belong to the tag function.  The stages of the two     *)
(* invocations are interleaved in every order, which covers the orders     *)
(* the event loop can produce.                                             *)

Invocations == {1, 2}
Other(inv) == 3 - inv

\* The command quote(...args) returned in invocation inv: the two
\* invocations are made with different templates.
CompiledOf(inv) == <<0 - inv>>

InFlight(c) == c.pc \notin {"idle", "done"}

\* The tag function of node n is called in invocation inv; while the other
\* invocation is in flight, it is the same tag function that is called.
InvokeOf(inv, n) ==
    /\ calls[inv].pc = "idle"
    /\ calls[Other(inv)].pc # "idle" => n = calls[Other(inv)].node
    /\ calls' = [calls EXCEPT
          ![inv] = [IdleInvocation EXCEPT
                       !.node = n, !.cmd = CompiledOf(inv), !.k = 1,
                       !.pc = IF n = 1 THEN "exec" ELSE "pre",
                       !.overlapped = InFlight(calls[Other(inv)])],
          ![Other(inv)] = [@ EXCEPT !.overlapped = @ \/ InFlight(calls[Other(inv)])]]
    /\ UNCHANGED notCallsVars

\* g = f.map(p), before the invocations are made.
MapChain(f, hasPre, hasFin) ==
    /\ \A inv \in Invocations : calls[inv].pc = "idle"
    /\ Len(nodes) <= MaxLayers
    /\ Map(f, hasPre, hasFin)

Logged(c, e) == [c EXCEPT !.log = Append(@, e)]

\* p.pre ? p.pre(cmd) : cmd  -- no pre is given
PreAbsentOf(inv) ==
    /\ calls[inv].pc = "pre"
    /\ ~nodes[preStages(nodes, calls[inv].node)[calls[inv].k]].pre
    /\ calls' = [calls EXCEPT ![inv] = afterPre(@)]
    /\ UNCHANGED notCallsVars

\* p.pre(cmd) returns
PreReturnsOf(inv) ==
    /\ calls[inv].pc = "pre"
    /\ LET c == calls[inv]
           k == preStages(nodes, c.node)[c.k]
       IN  /\ nodes[k].pre
           /\ calls' = [calls EXCEPT ![inv] =
                 Logged(afterPre([c EXCEPT !.cmd = preOf(k, c.cmd)]),
                        Entry("pre", k, c.cmd, FALSE))]
    /\ UNCHANGED notCallsVars

\* p.pre(cmd) throws
PreRaisesOf(inv) ==
    /\ calls[inv].pc = "pre"
    /\ LET c == calls[inv]
           k == preStages(nodes, c.node)[c.k]
       IN  /\ nodes[k].pre
           /\ calls' = [calls EXCEPT ![inv] =
                 Logged(raise(c, Err("pre", k)), Entry("pre", k, c.cmd, TRUE))]
    /\ UNCHANGED notCallsVars

\* await exec(cmd) at the bottom of the chain: the subprocess of this
\* invocation ran and exited with some code.
ExecReturnsOf(inv, code) ==
    /\ calls[inv].pc = "exec"
    /\ LET c == calls[inv]
       IN  calls' = [calls EXCEPT ![inv] =
              Logged(afterExec(c, [code |-> code, cmd |-> c.cmd, trail |-> <<>>]),
                     Entry("exec", 1, c.cmd, FALSE))]
    /\ UNCHANGED notCallsVars

\* The executor rejects.
ExecFailsOf(inv) ==
    /\ calls[inv].pc = "exec"
    /\ LET c == calls[inv]
       IN  calls' = [calls EXCEPT ![inv] =
              Logged(raise(c, Err("exec", 1)), Entry("exec", 1, c.cmd, TRUE))]
    /\ UNCHANGED notCallsVars

\* p.post(result) returns
PostReturnsOf(inv) ==
    /\ calls[inv].pc = "post"
    /\ LET c == calls[inv]
           k == postStages(nodes, c.node)[c.k]
           next == IF c.k = Len(postStages(nodes, c.node))
                   THEN [c EXCEPT !.res = postOf(k, c.res), !.pc = "finally", !.k = 1]
                   ELSE [c EXCEPT !.res = postOf(k, c.res), !.k = @ + 1]
       IN  calls' = [calls EXCEPT ![inv] = Logged(next, Entry("post", k, c.res, FALSE))]
    /\ UNCHANGED notCallsVars

\* p.post(result) throws
PostRaisesOf(inv) ==
    /\ calls[inv].pc = "post"
    /\ LET c == calls[inv]
           k == postStages(nodes, c.node)[c.k]
       IN  calls' = [calls EXCEPT ![inv] =
              Logged(raise(c, Err("post", k)), Entry("post", k, c.res, TRUE))]
    /\ UNCHANGED notCallsVars

\* f?.() -- the entry is undefined
FinalizeAbsentOf(inv) ==
    /\ calls[inv].pc = "finally"
    /\ finallyList(nodes, calls[inv].node)[calls[inv].k] = 0
    /\ calls' = [calls EXCEPT ![inv] = afterFinalize(@)]
    /\ UNCHANGED notCallsVars

\* f() returns
FinalizeReturnsOf(inv) ==
    /\ calls[inv].pc = "finally"
    /\ LET c == calls[inv]
           k == finallyList(nodes, c.node)[c.k]
       IN  /\ k # 0
           /\ calls' = [calls EXCEPT ![inv] =
                 Logged(afterFinalize(c), Entry("finalize", k, <<>>, FALSE))]
    /\ UNCHANGED notCallsVars

\* f() throws: the finally block is left at once and its error replaces
\* the pending result or error.
FinalizeRaisesOf(inv) ==
    /\ calls[inv].pc = "finally"
    /\ LET c == calls[inv]
           k == finallyList(nodes, c.node)[c.k]
       IN  /\ k # 0
           /\ calls' = [calls EXCEPT ![inv] =
                 Logged([c EXCEPT !.err = Err("finalize", k), !.pc = "return"],
                        Entry("finalize", k, <<>>, TRUE))]
    /\ UNCHANGED notCallsVars

\* The promise of the invocation settles.
ReturnOf(inv) ==
    /\ calls[inv].pc = "return"
    /\ LET c == calls[inv]
       IN  calls' = [calls EXCEPT ![inv] =
              [c EXCEPT !.pc = "done",
                        !.outcome = IF c.err = NoErr
                                    THEN [kind |-> "returned", value |-> c.res, err |-> NoErr]
                                    ELSE [kind |-> "raised", value |-> NoRes, err |-> c.err]]]
    /\ UNCHANGED notCallsVars

InitCalls ==
    /\ IdleCalls
    /\ IdleMap
    /\ IdleQuoteString
    /\ IdleQuote
    /\ IdleAction
    /\ IdleExec
    /\ IdlePipes
    /\ IdleSpinner

NextCalls ==
    \/ \E f \in 1..Len(nodes), hasPre \in BOOLEAN, hasFin \in BOOLEAN :
          MapChain(f, hasPre, hasFin)
    \/ \E inv \in Invocations, n \in 1..Len(nodes) : InvokeOf(inv, n)
    \/ \E inv \in Invocations : PreAbsentOf(inv)
    \/ \E inv \in Invocations : PreReturnsOf(inv)
    \/ \E inv \in Invocations : PreRaisesOf(inv)
    \/ \E inv \in Invocations, code \in ExitCodes : ExecReturnsOf(inv, code)
    \/ \E inv \in Invocations : ExecFailsOf(inv)
    \/ \E inv \in Invocations : PostReturnsOf(inv)
    \/ \E inv \in Invocations : PostRaisesOf(inv)
    \/ \E inv \in Invocations : FinalizeAbsentOf(inv)
    \/ \E inv \in Invocations : FinalizeReturnsOf(inv)
    \/ \E inv \in Invocations : FinalizeRaisesOf(inv)
    \/ \E inv \in Invocations : ReturnOf(inv)

SpecCalls == InitCalls /\ [][NextCalls]_vars

----------------------------------------------------------------------------
(* wrapWithSpinnerPrinter (spinner.ts)                                     *)
(*                                                                         *)
(* timeout, frame and t0 are variables of the closure of one call of       *)
(* wrapWithSpinnerPrinter: every invocation of the tag function it returns *)
(* reads and writes the same ones.  The tag function is f.map({pre, post,  *)
(* finalize}): its pre runs when it is called, its post and its finally    *)
(* block run in one piece once exec has returned.                          *)

\* What f is: sh, or sh.map(post) with a post that may throw.
Wrappable == {"sh", "mapped"}

NoTimer == 0

\* setTimeout(nextFrame, 80): a new timer, pending.
setTimeout(sp) ==
    [sp EXCEPT !.timeout = sp.nextId, !.pending = @ \cup {sp.nextId}, !.nextId = @ + 1]

\* clearTimeout(timeout); timeout = undefined
clearTimeout(sp) == [sp EXCEPT !.pending = @ \ {sp.timeout}, !.timeout = NoTimer]

\* Lines 24-28: the callback of the timer id.
nextFrame(sp, id) ==
    setTimeout([sp EXCEPT !.pending = @ \ {id},
                          !.frame = (@ + 1) % Len(spinnerFrames)])

\* Lines 29-34
startSpinner(sp) == setTimeout(clearTimeout(sp))

\* Lines 35-39
stopSpinner(sp) == clearTimeout(sp)

\* Lines 43-48: pre of invocation inv
spinnerPre(sp, inv) ==
    [startSpinner(sp) EXCEPT !.calls[inv].started = TRUE]

\* Lines 49-53: post of invocation inv
spinnerPost(sp, inv) ==
    [stopSpinner(sp) EXCEPT !.calls[inv].postRan = TRUE]

\* Lines 54-62, were the spinner left running.
spinnerFinalize_printsOnly(sp, inv) ==
    IF sp.timeout # NoTimer
    THEN [sp EXCEPT !.calls[inv].exceptions = @ + 1]
    ELSE sp

\* Lines 54-62: finalize of invocation inv
spinnerFinalize(sp, inv) ==
    LET isException == sp.timeout # NoTimer
    IN  IF isException
        THEN [stopSpinner(sp) EXCEPT !.calls[inv].exceptions = @ + 1]
        ELSE stopSpinner(sp)

\* The async function of map settles (part_000 line 415).
settled(sp, inv, how) == [sp EXCEPT !.calls[inv].pc = "done", !.calls[inv].settled = how]

SpinnerInFlight(c) == c.pc \notin {"idle", "done"}

\* spin = wrapWithSpinnerPrinter(f)
WrapWithSpinnerPrinter(f) ==
    /\ spin.wrapped = "none"
    /\ spin' = [spin EXCEPT !.wrapped = f]
    /\ UNCHANGED notSpinVars

\* The tag function is called: quote, then p.pre(q), then exec is called
\* and awaited (part_000 lines 407-408).
SpinnerInvoke(inv) ==
    /\ spin.wrapped # "none"
    /\ spin.calls[inv].pc = "idle"
    /\ spin.nextId <= MaxTimers
    /\ spin' = [spinnerPre(spin, inv) EXCEPT
                   !.calls[inv].pc = "exec",
                   !.overlapped = @ \/ SpinnerInFlight(spin.calls[3 - inv])]
    /\ UNCHANGED notSpinVars

\* A pending timer fires.
SpinnerTick(id) ==
    /\ id \in spin.pending
    /\ spin.nextId <= MaxTimers
    /\ spin' = nextFrame(spin, id)
    /\ UNCHANGED notSpinVars

\* The executor of f returned: the post of f, if it has one, is next.
SpinnerExecReturns(inv) ==
    /\ spin.calls[inv].pc = "exec"
    /\ spin' = [spin EXCEPT !.calls[inv].pc =
                   IF spin.wrapped = "mapped" THEN "inner post" ELSE "post"]
    /\ UNCHANGED notSpinVars

\* The executor of f rejected: the finally block is next.
SpinnerExecFails(inv) ==
    /\ spin.calls[inv].pc = "exec"
    /\ spin' = [spin EXCEPT !.calls[inv].pc = "finally", !.calls[inv].failure = "exec"]
    /\ UNCHANGED notSpinVars

\* The post of f returned.
InnerPostReturns(inv) ==
    /\ spin.calls[inv].pc = "inner post"
    /\ spin' = [spin EXCEPT !.calls[inv].pc = "post"]
    /\ UNCHANGED notSpinVars

\* The post of f threw.
InnerPostRaises(inv) ==
    /\ spin.calls[inv].pc = "inner post"
    /\ spin' = [spin EXCEPT !.calls[inv].pc = "finally", !.calls[inv].failure = "inner post"]
    /\ UNCHANGED notSpinVars

\* return p.post(await exec(...)) and then the finally block, with nothing
\* in between.
SpinnerPostThenFinalize(inv) ==
    /\ spin.calls[inv].pc = "post"
    /\ spin' = settled(spinnerFinalize(spinnerPost(spin, inv), inv), inv, "returned")
    /\ UNCHANGED notSpinVars

\* The finally block after a rejection of exec.
SpinnerFinalize(inv) ==
    /\ spin.calls[inv].pc = "finally"
    /\ spin' = settled(spinnerFinalize(spin, inv), inv, "raised")
    /\ UNCHANGED notSpinVars

InitSpinner ==
    /\ IdleSpinner
    /\ IdleCalls
    /\ IdleMap
    /\ IdleQuoteString
    /\ IdleQuote
    /\ IdleAction
    /\ IdleExec
    /\ IdlePipes

NextSpinner ==
    \/ \E f \in Wrappable : WrapWithSpinnerPrinter(f)
    \/ \E inv \in Invocations : SpinnerInvoke(inv)
    \/ \E id \in 1..MaxTimers : SpinnerTick(id)
    \/ \E inv \in Invocations : SpinnerExecReturns(inv)
    \/ \E inv \in Invocations : SpinnerExecFails(inv)
    \/ \E inv \in Invocations : InnerPostReturns(inv)
    \/ \E inv \in Invocations : InnerPostRaises(inv)
    \/ \E inv \in Invocations : SpinnerPostThenFinalize(inv)
    \/ \E inv \in Invocations : SpinnerFinalize(inv)

SpecSpinner == InitSpinner /\ [][NextSpinner]_vars

----------------------------------------------------------------------------
(* action: a unit of work raced against a timer                            *)
(*                                                                         *)
(* A frame is one call of action.  frames[1] is the call made by the       *)
(* program, frames[d + 1] a call made by the work of frames[d], which      *)
(* awaits it.  Time is abstracted: the timer of a frame may fire at any    *)
(* moment at which the event loop is free to run it, that is while the     *)
(* race of the frame is undecided.                                         *)

\* The classes of the errors a work can throw.
SkipError == "SkipError"
TimeoutError == "TimeoutError"
ShellError == "ShellError"
OtherError == "Error"
ErrorClasses == {SkipError, TimeoutError, ShellError, OtherError}

\* An error object: its class, who constructed it ("work" or "action") and
\* the depth of the frame in which it was constructed.
NoError == [cls |-> "none", by |-> "none", origin |-> 0]
NewError(cls, by, d) == [cls |-> cls, by |-> by, origin |-> d]

\* What a work can resolve with.
WorkValues == {Undefined, "value"}
timeoutSymbol == "Symbol(timeout)"

\* defaultConfig, as the module sets it.
defaultConfig == [verbosity |-> "verbose", colors |-> "true"]

\* The config argument of a call: a field left out is "undefined".
Configs ==
    { [verbosity |-> Undefined, colors |-> Undefined],
      [verbosity |-> "quiet", colors |-> "false"] }

\* a ?? b
Coalesce(a, b) == IF a = Undefined THEN b ELSE a

\* const v = config?.verbosity ?? defaultConfig?.verbosity ?? "verbose"
verbosityOf(cfg) == Coalesce(Coalesce(cfg.verbosity, defaultConfig.verbosity), "verbose")

\* config?.colors ?? defaultConfig?.colors ?? true
colorsOf(cfg) == Coalesce(Coalesce(cfg.colors, defaultConfig.colors), "true") = "true"

\* if (v): v is a string, and a string is falsy only when it is empty.
Truthy(v) == v # ""

NoRace == [by |-> "none", state |-> "pending", value |-> Undefined, err |-> NoError]
NoExit == [kind |-> "none", line |-> 0, value |-> Undefined, err |-> NoError]

\* The frame of a call of action(label, f, config) at line 131.
NewFrame(cfg) ==
    [pc |-> "try", cfg |-> cfg,
     timer |-> "unset",          \* "unset", "pending", "fired" or "cleared"
     timeoutId |-> FALSE,        \* tc.timeoutId !== undefined
     work |-> "uncalled",        \* "uncalled", "threw", "running", "resolved", "rejected"
     signal |-> "none",          \* what f was called with
     race |-> NoRace,            \* Promise.race([p, timeoutPromise])
     raced |-> FALSE,            \* Promise.race subscribed to the promise of the work
     got |-> Undefined,          \* what await timeoutPromise(..) gave
     err |-> NoError,            \* the error the catch block holds
     pending |-> NoExit,         \* the return or throw the finally block lets through
     exit |-> NoExit]            \* what the caller received

Write(d, item, colored) == [frame |-> d, item |-> item, colored |-> colored]

\* Deno.stdout.writeSync(...) under if (v)
writeIf(out, cfg, d, item, colored) ==
    IF Truthy(verbosityOf(cfg)) THEN Append(out, Write(d, item, colored)) ELSE out

\* clearTimeoutCookie, were it to forget the timer without clearing it.
clearTimeoutCookie_forgets(f) == [f EXCEPT !.timeoutId = FALSE]

\* clearTimeoutCookie(tc): clearTimeout of a timer that fired does nothing.
clearTimeoutCookie(f) ==
    IF f.timeoutId
    THEN [f EXCEPT !.timeoutId = FALSE,
                   !.timer = IF @ = "pending" THEN "cleared" ELSE @]
    ELSE f

\* The depth at which a new call of action can be made: by the program when
\* no call was made yet, or by the work of the innermost frame while it runs.
CanCall ==
    \/ frames = <<>>
    \/ /\ frames # <<>>
       /\ Len(frames) < MaxDepth
       /\ frames[Len(frames)].work = "running"

\* Lines 127-131: the label is written, the cookie and the clock are set up.
ActionCall(cfg) ==
    /\ CanCall
    /\ frames' = Append(frames, NewFrame(cfg))
    /\ stdout' = writeIf(stdout, cfg, Len(frames) + 1, "label", FALSE)
    /\ UNCHANGED notActionVars

\* Line 134, f() throws before it returns a promise (f is not an async
\* function): timeoutPromise is never called and the catch block is entered.
WorkThrows(d, cls) ==
    /\ frames[d].pc = "try"
    /\ frames' = [frames EXCEPT ![d] =
          [@ EXCEPT !.pc = "caught", !.work = "threw", !.err = NewError(cls, "work", d)]]
    /\ UNCHANGED <<stdout, notActionVars>>

\* Line 134, f() returns a promise: timeoutPromise sets the timer (line 76)
\* and awaits the race (line 80).
WorkStarts(d) ==
    /\ frames[d].pc = "try"
    /\ frames' = [frames EXCEPT ![d] =
          [@ EXCEPT !.pc = "await", !.work = "running", !.raced = TRUE,
                    !.timer = "pending", !.timeoutId = TRUE]]
    /\ UNCHANGED <<stdout, notActionVars>>

\* The work of frame d is running its own code: it is not awaiting a call of
\* action it made.
WorkRuns(d) ==
    /\ frames[d].work = "running"
    /\ IF Len(frames) = d THEN TRUE ELSE frames[d + 1].pc = "done"

\* Promise.race, were it to follow the last of its promises to settle.
settle_lastWins(f, by, state, value, err) ==
    [f EXCEPT !.race = [by |-> by, state |-> state, value |-> value, err |-> err]]

\* Promise.race settles with the first of its promises to settle.
settle(f, by, state, value, err) ==
    IF f.race.state = "pending"
    THEN [f EXCEPT !.race = [by |-> by, state |-> state, value |-> value, err |-> err]]
    ELSE f

\* The promise f() returned resolves.
WorkResolves(d, value) ==
    /\ WorkRuns(d)
    /\ frames' = [frames EXCEPT ![d] =
          settle([@ EXCEPT !.work = "resolved"], "work", "resolved", value, NoError)]
    /\ UNCHANGED <<stdout, notActionVars>>

\* The promise f() returned rejects with an error the work constructed.
WorkRejects(d, cls) ==
    /\ WorkRuns(d)
    /\ frames' = [frames EXCEPT ![d] =
          settle([@ EXCEPT !.work = "rejected"], "work", "rejected", Undefined,
                 NewError(cls, "work", d))]
    /\ UNCHANGED <<stdout, notActionVars>>

\* The work awaited a call of action that threw and does not catch the
\* error: the promise f() returned rejects with it.
WorkPropagates(d) ==
    /\ WorkRuns(d)
    /\ Len(frames) > d
    /\ frames[d + 1].exit.kind = "raised"
    /\ frames' = [frames EXCEPT ![d] =
          settle([@ EXCEPT !.work = "rejected"], "work", "rejected", Undefined,
                 frames[d + 1].exit.err)]
    /\ UNCHANGED <<stdout, notActionVars>>

\* Lines 76-78: the timer fires and resolves its promise with timeoutSymbol.
TimerFires(d) ==
    /\ frames[d].pc = "await"
    /\ frames[d].timer = "pending"
    /\ frames[d].race.state = "pending"
    /\ frames' = [frames EXCEPT ![d] =
          settle([@ EXCEPT !.timer = "fired"], "timer", "resolved", timeoutSymbol, NoError)]
    /\ UNCHANGED <<stdout, notActionVars>>

\* Lines 80-82, the race resolved: the cookie is cleared and the value of
\* the race returned.
timeoutPromise(f) == [clearTimeoutCookie(f) EXCEPT !.pc = "got", !.got = f.race.value]

TimeoutPromiseReturns(d) ==
    /\ frames[d].pc = "await"
    /\ frames[d].race.state = "resolved"
    /\ frames' = [frames EXCEPT ![d] = timeoutPromise(@)]
    /\ UNCHANGED <<stdout, notActionVars>>

\* Line 80, the race rejected: the await throws, line 81 is not reached and
\* the catch block of action is entered.
TimeoutPromiseRejects(d) ==
    /\ frames[d].pc = "await"
    /\ frames[d].race.state = "rejected"
    /\ frames' = [frames EXCEPT ![d] = [@ EXCEPT !.pc = "caught", !.err = frames[d].race.err]]
    /\ UNCHANGED <<stdout, notActionVars>>

Returned(line, value) == [kind |-> "returned", line |-> line, value |-> value, err |-> NoError]
Raised(line, e) == [kind |-> "raised", line |-> line, value |-> Undefined, err |-> e]

\* Lines 135-144, were the result returned without the test of line 135.
gotBlock_noTest(f, d) == [f EXCEPT !.pc = "finally", !.pending = Returned(143, f.got)]

\* Lines 135-144: the timeout symbol makes a TimeoutError, thrown into the
\* catch block; any other result is returned.
gotBlock(f, d) ==
    IF f.got = timeoutSymbol
    THEN [f EXCEPT !.pc = "caught", !.err = NewError(TimeoutError, "action", d)]
    ELSE [f EXCEPT !.pc = "finally", !.pending = Returned(143, f.got)]

\* Lines 138-142: what the else branch writes.
gotWrites(out, f, d) ==
    IF f.got = timeoutSymbol THEN out
    ELSE writeIf(out, f.cfg, d, "OK", colorsOf(f.cfg))

ActionGot(d) ==
    /\ frames[d].pc = "got"
    /\ frames' = [frames EXCEPT ![d] = gotBlock(@, d)]
    /\ stdout' = gotWrites(stdout, frames[d], d)
    /\ UNCHANGED notActionVars

\* Lines 145-166, were a SkipError thrown on like any other error.
catchBlock_rethrowsSkip(f) == [f EXCEPT !.pc = "finally", !.pending = Raised(166, f.err)]

\* Lines 145-166, were the error wrapped in a new one before it is thrown.
catchBlock_wraps(f) ==
    [f EXCEPT !.pc = "finally",
              !.pending = IF f.err.cls = SkipError
                          THEN Returned(152, Undefined)
                          ELSE Raised(166, NewError(OtherError, "action", f.err.origin))]

\* Lines 145-166, were the throw of line 166 inside the last if (v) { } and
\* that test v === "verbose".
catchBlock_throwsIfVerbose(f) ==
    [f EXCEPT !.pc = "finally",
              !.pending = IF f.err.cls = SkipError \/ verbosityOf(f.cfg) # "verbose"
                          THEN Returned(152, Undefined)
                          ELSE Raised(166, f.err)]

\* Lines 145-166: a SkipError ends the call with return undefined, any other
\* error is thrown again.
catchBlock(f) ==
    [f EXCEPT !.pc = "finally",
              !.pending = IF f.err.cls = SkipError
                          THEN Returned(152, Undefined)
                          ELSE Raised(166, f.err)]

\* Line 156
errLabel(e) == IF e.cls = TimeoutError THEN "TIMEOUT" ELSE "ERROR"

\* Lines 147-165: what the catch block writes.
catchWrites(out, f, d) ==
    IF f.err.cls = SkipError
    THEN writeIf(out, f.cfg, d, "SKIPPED", colorsOf(f.cfg))
    ELSE LET tagged == writeIf(out, f.cfg, d, errLabel(f.err), colorsOf(f.cfg))
         IN  IF f.err.cls = ShellError
             THEN writeIf(tagged, f.cfg, d, "result", FALSE)
             ELSE tagged

ActionCatch(d) ==
    /\ frames[d].pc = "caught"
    /\ frames' = [frames EXCEPT ![d] = catchBlock(@)]
    /\ stdout' = catchWrites(stdout, frames[d], d)
    /\ UNCHANGED notActionVars

\* Lines 167-169, were the finally block left out.
finallyBlock_absent(f) == [f EXCEPT !.pc = "done", !.exit = f.pending]

\* Lines 167-169: the cookie is cleared, then the caller receives the
\* value or the error.
finallyBlock(f) == [clearTimeoutCookie(f) EXCEPT !.pc = "done", !.exit = f.pending]

ActionFinally(d) ==
    /\ frames[d].pc = "finally"
    /\ frames' = [frames EXCEPT ![d] = finallyBlock(@)]
    /\ UNCHANGED <<stdout, notActionVars>>

InitAction ==
    /\ IdleAction
    /\ IdleQuoteString
    /\ IdleQuote
    /\ IdleMap
    /\ IdleExec
    /\ IdlePipes
    /\ IdleCalls
    /\ IdleSpinner

NextAction ==
    \/ \E cfg \in Configs : ActionCall(cfg)
    \/ \E d \in 1..Len(frames), cls \in ErrorClasses : WorkThrows(d, cls)
    \/ \E d \in 1..Len(frames) : WorkStarts(d)
    \/ \E d \in 1..Len(frames), value \in WorkValues : WorkResolves(d, value)
    \/ \E d \in 1..Len(frames), cls \in ErrorClasses : WorkRejects(d, cls)
    \/ \E d \in 1..Len(frames) : WorkPropagates(d)
    \/ \E d \in 1..Len(frames) : TimerFires(d)
    \/ \E d \in 1..Len(frames) : TimeoutPromiseReturns(d)
    \/ \E d \in 1..Len(frames) : TimeoutPromiseRejects(d)
    \/ \E d \in 1..Len(frames) : ActionGot(d)
    \/ \E d \in 1..Len(frames) : ActionCatch(d)
    \/ \E d \in 1..Len(frames) : ActionFinally(d)

SpecAction == InitAction /\ [][NextAction]_vars

----------------------------------------------------------------------------
(* execOpt and shOpt: the executor                                         *)
(*                                                                         *)
(* proc is one invocation of a plain tag function made by shOpt(opt) or    *)
(* shOpt(opt, "binary"): the command is compiled and handed to the         *)
(* function execOpt(opt) returned, which spawns the shell, feeds its       *)
(* standard input, closes it and awaits the output.  Bytes are numbers,    *)
(* text is a sequence of one-character strings.                            *)

\* The bytes the subprocess may write: a, space, line feed, and a byte that
\* is not valid UTF-8 on its own.
ByteA == 97
ByteSpace == 32
ByteLF == 10
ByteInvalid == 255
Outputs ==
    {<<>>, <<ByteA>>, <<ByteSpace, ByteA, ByteLF>>, <<ByteInvalid>>,
     <<ByteLF, ByteA, ByteSpace, ByteA, ByteSpace>>}

\* Date.now() - t0
ElapsedTimes == {0, 7}

\* new TextDecoder().decode(bytes): a byte that is not valid UTF-8 becomes
\* the replacement character.
decodeByte(b) ==
    IF b = ByteA THEN "a"
    ELSE IF b = ByteSpace THEN SP
    ELSE IF b = ByteLF THEN "\n"
    ELSE "U+FFFD"

decode(bytes) == [k \in 1..Len(bytes) |-> decodeByte(bytes[k])]

\* new TextEncoder().encode(text), for the text of a stdin payload
encode(text) == [k \in 1..Len(text) |-> IF text[k] = "a" THEN ByteA ELSE ByteSpace]

WhiteSpace == {SP, "\n"}

\* v.trim()
RECURSIVE trimStart(_)
trimStart(v) ==
    IF v # <<>> /\ Head(v) \in WhiteSpace THEN trimStart(Tail(v)) ELSE v

RECURSIVE trimEnd(_)
trimEnd(v) ==
    IF v # <<>> /\ v[Len(v)] \in WhiteSpace THEN trimEnd(SubSeq(v, 1, Len(v) - 1)) ELSE v

trim(v) == trimEnd(trimStart(v))

trimMaybe(v, shouldTrim) == IF shouldTrim THEN trim(v) ELSE v

\* The options of shOpt that the executor reads here: stdin is undefined, a
\* string or bytes; trim is undefined or a boolean.
Stdins == {Undefined, <<>>, <<"a">>}
\* opt.shellArgs: not given, or -e -c
ShellArgs == {Undefined, << <<"-", "e">>, <<"-", "c">> >>}
ShellOptions == [stdin : Stdins, trim : {Undefined, "true", "false"}, shellArgs : ShellArgs]

\* Line 426: args: [...(opt.shellArgs ?? ["-c"]), cmd]
commandArgs(opt, cmd) == Coalesce(opt.shellArgs, << <<"-", "c">> >>) \o <<cmd>>
OutputModes == {"utf-8", "binary"}
Commands == {<<"a">>, <<"a", SP, "b">>}

\* A rejection of the function execOpt returned: it has no try block, the
\* error reaches the caller of the tag function as it is.
fails(p, step) == [p EXCEPT !.pc = "done", !.failure = step, !.settled = "raised"]

\* The tag function is called: quote compiled the command and exec(cmd)
\* runs up to p.spawn() (lines 425-432).
ExecCall(opt, mode, cmd) ==
    /\ proc.pc = "idle"
    /\ proc' = [IdleProc EXCEPT !.pc = "spawn", !.opt = opt, !.mode = mode,
                                !.q = cmd, !.cmd = cmd]
    /\ UNCHANGED notExecVars

\* Line 433: the shell is spawned.
Spawns ==
    /\ proc.pc = "spawn"
    /\ proc' = [proc EXCEPT !.spawns = @ + 1, !.stdinOpen = TRUE,
                            !.argv = commandArgs(proc.opt, proc.cmd),
                            !.pc = IF proc.opt.stdin # Undefined THEN "write" ELSE "close"]
    /\ UNCHANGED notExecVars

\* Line 433: the shell cannot be spawned.
SpawnFails ==
    /\ proc.pc = "spawn"
    /\ proc' = fails(proc, "spawn")
    /\ UNCHANGED notExecVars

\* Lines 435-438: the payload is encoded and written.
WriteReturns ==
    /\ proc.pc = "write"
    /\ proc' = [proc EXCEPT !.stdinWritten = encode(proc.opt.stdin), !.pc = "close"]
    /\ UNCHANGED notExecVars

\* Line 437: the write is rejected with an I/O error.
WriteFails ==
    /\ proc.pc = "write"
    /\ proc' = fails(proc, "write")
    /\ UNCHANGED notExecVars

\* Line 440
CloseReturns ==
    /\ proc.pc = "close"
    /\ proc' = [proc EXCEPT !.stdinOpen = FALSE, !.pc = "output"]
    /\ UNCHANGED notExecVars

CloseFails ==
    /\ proc.pc = "close"
    /\ proc' = fails(proc, "close")
    /\ UNCHANGED notExecVars

\* Lines 442-448, were a non-zero exit code turned into a rejection.
binaryResult_rejectsNonZero(p, code, out, errOut, ms) ==
    IF code # 0 THEN fails([p EXCEPT !.exitCode = code], "exit code")
    ELSE [p EXCEPT !.exitCode = code,
                   !.binary = [code |-> code, stdout |-> out, stderr |-> errOut,
                               cmd |-> p.cmd, elapsedMilliseconds |-> ms,
                               trimmed |-> Undefined]]

\* Lines 442-448, were the command of the result the one quote returned.
binaryResult_compiledCmd(p, code, out, errOut, ms) ==
    [p EXCEPT !.exitCode = code,
              !.binary = [code |-> code, stdout |-> out, stderr |-> errOut,
                          cmd |-> p.q, elapsedMilliseconds |-> ms,
                          trimmed |-> Undefined]]

\* Lines 442-448: the result execOpt's function returns.
binaryResult(p, code, out, errOut, ms) ==
    [p EXCEPT !.exitCode = code,
              !.binary = [code |-> code, stdout |-> out, stderr |-> errOut,
                          cmd |-> p.cmd, elapsedMilliseconds |-> ms,
                          trimmed |-> Undefined]]

\* Lines 477-486, were the trim option not looked at.
binaryToText_alwaysTrims(opt, res) ==
    [res EXCEPT !.stdout = trim(decode(res.stdout)),
                !.stderr = trim(decode(res.stderr)),
                !.trimmed = IF Coalesce(opt.trim, "true") = "true" THEN "true" ELSE "false"]

\* Lines 477-486
binaryToText(opt, res) ==
    LET shouldTrim == Coalesce(opt.trim, "true") = "true"
    IN  [res EXCEPT !.stdout = trimMaybe(decode(res.stdout), shouldTrim),
                    !.stderr = trimMaybe(decode(res.stderr), shouldTrim),
                    !.trimmed = IF shouldTrim THEN "true" ELSE "false"]

\* Lines 473-488: what the plain tag function returns to its caller; in
\* the function map made (line 408), what exec hands to p.post.
tagResult(p) ==
    IF p.settled = "raised" THEN p
    ELSE LET res == IF p.mode = "binary" THEN p.binary ELSE binaryToText(p.opt, p.binary)
         IN  IF p.fn = "plain"
             THEN [p EXCEPT !.pc = "done", !.settled = "returned",
                            !.result = res, !.value = res]
             ELSE [p EXCEPT !.pc = "post", !.result = res]

\* Line 441: the subprocess exited with code, its output was collected.
OutputReturns(code, out, errOut, ms) ==
    /\ proc.pc = "output"
    /\ proc' = tagResult(binaryResult(proc, code, out, errOut, ms))
    /\ UNCHANGED notExecVars

\* Line 441: collecting the output is rejected with an I/O error.
OutputFails ==
    /\ proc.pc = "output"
    /\ proc' = fails(proc, "output")
    /\ UNCHANGED notExecVars

\* new ShellError(result), action.ts lines 53-61
NewShellError(res) == [name |-> "ShellError", result |-> res]

\* The post of shAction, were the ShellError made from the exit code alone.
shActionPost_codeOnly(p) ==
    IF p.result.code # 0
    THEN [p EXCEPT !.pc = "done", !.settled = "raised",
                   !.error = NewShellError([NoResult EXCEPT !.code = p.result.code])]
    ELSE [p EXCEPT !.pc = "done", !.settled = "returned", !.value = p.result]

\* The post of shAction, action.ts lines 110-115: it has no finalizers, so
\* what it returns or throws is what the caller receives.
shActionPost(p) ==
    IF p.result.code # 0
    THEN [p EXCEPT !.pc = "done", !.settled = "raised", !.error = NewShellError(p.result)]
    ELSE [p EXCEPT !.pc = "done", !.settled = "returned", !.value = p.result]

\* shAction is called: sh is shOpt({}), so no option is set and the output
\* is text.
ShActionCall(cmd) ==
    /\ proc.pc = "idle"
    /\ proc' = [IdleProc EXCEPT !.pc = "spawn", !.fn = "shAction", !.pres = <<FALSE>>,
                                !.q = cmd, !.cmd = cmd]
    /\ UNCHANGED notExecVars

\* p.post(await exec(q)) of shAction
ShActionPost ==
    /\ proc.pc = "post"
    /\ proc.fn = "shAction"
    /\ proc' = shActionPost(proc)
    /\ UNCHANGED notExecVars

\* The chains of map calls on a plain tag function: of each layer, in
\* attach order, whether p.pre is given.
RECURSIVE Chains(_)
Chains(n) ==
    IF n = 0 THEN {<<>>}
    ELSE LET shorter == Chains(n - 1)
         IN  shorter \cup {Append(c, b) : c \in {ch \in shorter : Len(ch) = n - 1},
                                          b \in BOOLEAN}

\* p.pre of layer k of a chain: it appends an option of its own.
preText(k, cmd) == cmd \o <<SP, "-", IF k % 2 = 1 THEN "a" ELSE "b">>

\* Lines 403 and 408, p.pre ? p.pre(cmd) : cmd in the function of layer k
\* and then in the nestedExec of every layer below it.
RECURSIVE preChain(_, _, _)
preChain(pres, k, cmd) ==
    IF k = 0 THEN cmd
    ELSE preChain(pres, k - 1, IF pres[k] THEN preText(k, cmd) ELSE cmd)

\* The function of the last layer of a chain is called: quote returned
\* compiled (line 407), the pre stages are applied down to the exec of the plain
\* function, which runs up to p.spawn().
MappedCall(opt, mode, compiled, pres) ==
    /\ proc.pc = "idle"
    /\ pres # <<>>
    /\ proc' = [IdleProc EXCEPT !.pc = "spawn", !.opt = opt, !.mode = mode,
                                !.fn = "mapped", !.pres = pres, !.q = compiled,
                                !.cmd = preChain(pres, Len(pres), compiled)]
    /\ UNCHANGED notExecVars

\* Lines 403 and 408, p.post of every layer of the chain returns the
\* result it was handed.
MappedPost ==
    /\ proc.pc = "post"
    /\ proc.fn = "mapped"
    /\ proc' = [proc EXCEPT !.pc = "done", !.settled = "returned", !.value = proc.result]
    /\ UNCHANGED notExecVars

InitExec ==
    /\ IdleExec
    /\ IdleQuoteString
    /\ IdleQuote
    /\ IdleMap
    /\ IdleAction
    /\ IdlePipes
    /\ IdleCalls
    /\ IdleSpinner

NextExec ==
    \/ \E opt \in ShellOptions, mode \in OutputModes, cmd \in Commands :
          ExecCall(opt, mode, cmd)
    \/ \E cmd \in Commands : ShActionCall(cmd)
    \/ ShActionPost
    \/ \E opt \in ShellOptions, mode \in OutputModes, compiled \in Commands,
          pres \in Chains(MaxLayers) : MappedCall(opt, mode, compiled, pres)
    \/ MappedPost
    \/ Spawns
    \/ SpawnFails
    \/ WriteReturns
    \/ WriteFails
    \/ CloseReturns
    \/ CloseFails
    \/ \E code \in ExitCodes, out \in Outputs, errOut \in Outputs, ms \in ElapsedTimes :
          OutputReturns(code, out, errOut, ms)
    \/ OutputFails

SpecExec == InitExec /\ [][NextExec]_vars

----------------------------------------------------------------------------
(* execOpt and the pipes of the subprocess                                 *)
(*                                                                         *)
(* stdin, stdout and stderr of the subprocess are piped (lines 428-430).   *)
(* A pipe holds at most PipeCapacity bytes: a write to a full pipe waits   *)
(* for the reader.  The executor writes the payload (line 437), closes     *)
(* the input (line 440) and only then, in cp.output() (line 441), starts   *)
(* to read what the subprocess wrote.  Bytes are counted, not kept.  The   *)
(* subprocess is one that exits once its input is at end-of-file and it    *)
(* has written all its output; it is described by the order in which it    *)
(* reads and writes.                                                       *)

\* "reader": reads its input to the end, then writes its output (wc);
\* "writer": writes its output, then reads its input to the end;
\* "echo": writes one byte for each byte it reads, before reading on (cat).
Policies == {"reader", "writer", "echo"}

\* opt.stdin: undefined, or a payload of so many bytes
NoPayload == [supplied |-> FALSE, size |-> 0]
Payloads == {NoPayload} \cup {[supplied |-> TRUE, size |-> n] : n \in 0..MaxPayload}

\* opt.stdin !== undefined
Supplied(payload) == payload.supplied

\* The call of exec(cmd) up to and including p.spawn().
SpawnedPipe(payload, policy, total) ==
    [IdlePipe EXCEPT !.pc = IF Supplied(payload) THEN "write" ELSE "close",
                     !.payload = payload,
                     !.left = payload.size,
                     !.inOpen = TRUE,
                     !.policy = policy,
                     !.toWrite = IF policy = "echo" THEN 0 ELSE total]

PipeCall(payload, policy, total) ==
    /\ pipe.pc = "idle"
    /\ pipe' = SpawnedPipe(payload, policy, total)
    /\ UNCHANGED notPipeVars

\* await w.write(stdinBuf) moves the payload into the pipe as room allows.
WriteByte ==
    /\ pipe.pc = "write"
    /\ pipe.left > 0
    /\ pipe.inBuf < PipeCapacity
    /\ pipe' = [pipe EXCEPT !.left = @ - 1, !.inBuf = @ + 1, !.written = @ + 1]
    /\ UNCHANGED notPipeVars

\* Line 437: the promise of w.write resolves when the whole buffer has been
\* written.
writeDone(p) == p.left = 0

\* Lines 437-438
WriteAllReturns ==
    /\ pipe.pc = "write"
    /\ writeDone(pipe)
    /\ pipe' = [pipe EXCEPT !.pc = "close"]
    /\ UNCHANGED notPipeVars

\* Line 440: await cp.stdin.close()
ClosePipe ==
    /\ pipe.pc = "close"
    /\ pipe' = [pipe EXCEPT !.inOpen = FALSE, !.pc = "output"]
    /\ UNCHANGED notPipeVars

\* Line 441: cp.output() reads what the subprocess wrote.
DrainByte ==
    /\ pipe.pc = "output"
    /\ pipe.outBuf > 0
    /\ pipe' = [pipe EXCEPT !.outBuf = @ - 1, !.collected = @ + 1]
    /\ UNCHANGED notPipeVars

\* Lines 441-448: the subprocess has exited and its output is collected.
OutputCollected ==
    /\ pipe.pc = "output"
    /\ pipe.exited
    /\ pipe.outBuf = 0
    /\ pipe' = [pipe EXCEPT !.pc = "done"]
    /\ UNCHANGED notPipeVars

\* The subprocess is ready to read: a writer only after it has written its
\* output, an echo only after it has written the byte it read before.
ReadyToRead(p) ==
    /\ p.pc \notin {"idle"}
    /\ ~p.exited /\ ~p.eof
    /\ p.policy \in {"writer", "echo"} => p.toWrite = 0

\* The subprocess is ready to write: a reader only after the end of its
\* input.
ReadyToWrite(p) ==
    /\ p.pc \notin {"idle"}
    /\ ~p.exited
    /\ p.toWrite > 0
    /\ p.policy = "reader" => p.eof

ChildReads ==
    /\ ReadyToRead(pipe)
    /\ pipe.inBuf > 0
    /\ pipe' = [pipe EXCEPT !.inBuf = @ - 1, !.consumed = @ + 1,
                            !.toWrite = IF pipe.policy = "echo" THEN @ + 1 ELSE @]
    /\ UNCHANGED notPipeVars

\* The input is closed and empty: the read returns end-of-file.
ChildReadsEOF ==
    /\ ReadyToRead(pipe)
    /\ pipe.inBuf = 0
    /\ ~pipe.inOpen
    /\ pipe' = [pipe EXCEPT !.eof = TRUE]
    /\ UNCHANGED notPipeVars

ChildWrites ==
    /\ ReadyToWrite(pipe)
    /\ pipe.outBuf < PipeCapacity
    /\ pipe' = [pipe EXCEPT !.toWrite = @ - 1, !.outBuf = @ + 1, !.produced = @ + 1]
    /\ UNCHANGED notPipeVars

ChildExits ==
    /\ pipe.pc # "idle"
    /\ ~pipe.exited
    /\ pipe.eof
    /\ pipe.toWrite = 0
    /\ pipe' = [pipe EXCEPT !.exited = TRUE]
    /\ UNCHANGED notPipeVars

InitPipes ==
    /\ IdlePipes
    /\ IdleQuoteString
    /\ IdleQuote
    /\ IdleMap
    /\ IdleAction
    /\ IdleExec
    /\ IdleCalls
    /\ IdleSpinner

NextPipes ==
    \/ \E payload \in Payloads, policy \in Policies, total \in 0..MaxOutput :
          PipeCall(payload, policy, total)
    \/ WriteByte
    \/ WriteAllReturns
    \/ ClosePipe
    \/ DrainByte
    \/ OutputCollected
    \/ ChildReads
    \/ ChildReadsEOF
    \/ ChildWrites
    \/ ChildExits

\* The event loop runs a continuation that is ready and the system runs a
\* subprocess that can take a step.
SpecPipes == InitPipes /\ [][NextPipes]_vars /\ WF_vars(NextPipes)

----------------------------------------------------------------------------
(* The shell's quoting grammar, as far as the compiled commands use it:    *)
(* words are separated by unquoted spaces; a single-quoted span is literal *)
(* up to the next single quote; a double-quoted span runs to the next      *)
(* double quote and is literal except for $ and backslash; an unquoted $ or  *)
(* backslash is an expansion or an escape.  A                              *)
(* text with an unbalanced quote, or with an expansion or escape, is not a *)
(* plain list of words: ok is FALSE.                                       *)

ShellSpecial == {"$", "\\"}

NotWords == [ok |-> FALSE, words |-> <<>>]

RECURSIVE Tokenize(_, _, _, _, _, _)
Tokenize(t, k, mode, cur, inWord, words) ==
    IF k > Len(t)
    THEN IF mode # "plain" THEN NotWords
         ELSE [ok |-> TRUE, words |-> IF inWord THEN Append(words, cur) ELSE words]
    ELSE LET c == t[k] IN
         CASE mode = "single" ->
                IF c = SQ THEN Tokenize(t, k + 1, "plain", cur, TRUE, words)
                ELSE Tokenize(t, k + 1, "single", Append(cur, c), TRUE, words)
           [] mode = "double" ->
                IF c = DQ THEN Tokenize(t, k + 1, "plain", cur, TRUE, words)
                ELSE IF c \in ShellSpecial THEN NotWords
                ELSE Tokenize(t, k + 1, "double", Append(cur, c), TRUE, words)
           [] OTHER ->
                IF c = SP
                THEN Tokenize(t, k + 1, "plain", <<>>, FALSE,
                              IF inWord THEN Append(words, cur) ELSE words)
                ELSE IF c = SQ THEN Tokenize(t, k + 1, "single", cur, TRUE, words)
                ELSE IF c = DQ THEN Tokenize(t, k + 1, "double", cur, TRUE, words)
                ELSE IF c \in ShellSpecial THEN NotWords
                ELSE Tokenize(t, k + 1, "plain", Append(cur, c), TRUE, words)

ShellWords(t) == Tokenize(t, 1, "plain", <<>>, FALSE, <<>>)

Words(ws) == [ok |-> TRUE, words |-> ws]

----------------------------------------------------------------------------
(* Specification of quoteString: the argument is any text over Alphabet of *)
(* at most MaxLen characters; the one step is the call.                    *)

InitQuoteString ==
    /\ s \in Up(Alphabet, MaxLen)
    /\ quoted = <<>>
    /\ qsPc = "call"
    /\ IdleQuote
    /\ IdleMap
    /\ IdleAction
    /\ IdleExec
    /\ IdlePipes
    /\ IdleCalls
    /\ IdleSpinner

QuoteStringCall ==
    /\ qsPc = "call"
    /\ quoted' = quoteString(s)
    /\ qsPc' = "done"
    /\ UNCHANGED <<s, notQsVars>>

NextQuoteString == QuoteStringCall

SpecQuoteString == InitQuoteString /\ [][NextQuoteString]_vars

----------------------------------------------------------------------------
(* Specification of quote: the call of the tag function on a template      *)
(* literal.  A template literal with n placeholders has n + 1 fragments.   *)
(* The fragments are the cuts of a literal text over {a, space} of at most *)
(* MaxLiteral characters; there are at most MaxArgs placeholders, of which *)
(* at most one holds a value of RichArgs and the others one of BasicArgs.  *)

PieceChars == {"a", SP}

BasicArgs == {Arr(<<>>), Str(<<"a">>)}

RichArgs ==
    { Str(<<>>), Str(<<"a", SP, "a">>), Str(<<SQ>>), Str(<<"$", "a">>),
      Str(<<SP, SQ, "a">>), Str(<<DQ>>), Str(<<"\\">>),
      Num(0 - 12), Num(31337), Bool(TRUE),
      Arr(<<Str(<<>>)>>), Arr(<<Str(<<"a", SP, "a">>), Num(5)>>),
      Arr(<<Str(<<SQ>>), Str(<<>>)>>), Arr(<<Str(<<"a">>), Str(<<"a">>)>>) }

\* The n + 1 fragments that the cuts c (non-decreasing positions) make of
\* the literal text lit.
Cut(lit, c, n) ==
    [k \in 1..(n + 1) |->
        SubSeq(lit, (IF k = 1 THEN 0 ELSE c[k - 1]) + 1,
                    IF k = n + 1 THEN Len(lit) ELSE c[k])]

Cuts(lit, n) ==
    {d \in [1..n -> 0..Len(lit)] : \A k \in 1..(n - 1) : d[k] <= d[k + 1]}

Templates(n) ==
    UNION { {Cut(lit, c, n) : c \in Cuts(lit, n)} :
              lit \in Up(PieceChars, MaxLiteral) }

ArgLists(n) ==
    { as \in [1..n -> BasicArgs \cup RichArgs] :
        Cardinality({k \in 1..n : as[k] \in RichArgs}) <= 1 }

InitQuote ==
    /\ \E n \in 0..MaxArgs :
          /\ pieces \in Templates(n)
          /\ args \in ArgLists(n)
    /\ i = 0
    /\ result = <<>>
    /\ quotePc = "call"
    /\ IdleQuoteString
    /\ IdleMap
    /\ IdleAction
    /\ IdleExec
    /\ IdlePipes
    /\ IdleCalls
    /\ IdleSpinner

\* The whole call of quote: it is synchronous.
QuoteCall ==
    /\ quotePc = "call"
    /\ result' = quote(pieces, args)
    /\ i' = Len(pieces)
    /\ quotePc' = "done"
    /\ UNCHANGED <<pieces, args, notQuoteVars>>

NextQuote == QuoteCall

SpecQuote == InitQuote /\ [][NextQuote]_vars

----------------------------------------------------------------------------
\* C1: round trip of quoteString: for every text s, the shell tokenizes
\* quoteString(s) to exactly one word, and that word is s.
C1_RoundTrip ==
    qsPc = "done" => ShellWords(quoted) = Words(<<s>>)

\* The round trip on a text that needs both kinds of span: ' '
C1_Witness ==
    /\ qsPc = "done"
    /\ s = <<SQ, SP, SQ>>
    /\ quoted = <<DQ, SQ, DQ, SQ, SP, SQ, DQ, SQ, DQ>>

\* C3 as stated: every text with no character outside the safe class is
\* returned unchanged.
C3_SafeUnchanged_AsStated ==
    (qsPc = "done" /\ \A k \in 1..Len(s) : s[k] \in SafeChars) => quoted = s

\* C3 as amended: every NON-EMPTY text with no character outside the safe
\* class is returned unchanged (the empty text is returned as '').
C3_SafeNonEmptyUnchanged ==
    (qsPc = "done" /\ s # <<>> /\ \A k \in 1..Len(s) : s[k] \in SafeChars)
        => quoted = s

\* A safe text of several characters has been returned as it is.
C3_Witness ==
    qsPc = "done" /\ s = <<"-", "a", "-", "a">> /\ quoted = s

----------------------------------------------------------------------------
(* Helpers of the claims about quote *)

\* The template's own text and values, before any quoting, as a list of
\* items: a separator for every literal space and between the elements of
\* one sequence, a text for every other literal character and for String()
\* of every scalar and of every sequence element.
Sep == [sep |-> TRUE, txt |-> <<>>]
Txt(x) == [sep |-> FALSE, txt |-> x]

PieceItems(p) == [k \in 1..Len(p) |-> IF p[k] = SP THEN Sep ELSE Txt(<<p[k]>>)]

RECURSIVE ElemItems(_)
ElemItems(es) ==
    IF es = <<>> THEN <<>>
    ELSE IF Len(es) = 1 THEN <<Txt(String(es[1]))>>
    ELSE <<Txt(String(es[1])), Sep>> \o ElemItems(Tail(es))

ArgItems(a) == IF isArray(a) THEN ElemItems(a.elems) ELSE <<Txt(String(a))>>

RECURSIVE TemplateItems(_, _, _)
TemplateItems(ps, as, k) ==
    IF k > Len(as) THEN <<>>
    ELSE ArgItems(as[k]) \o PieceItems(ps[k + 1]) \o TemplateItems(ps, as, k + 1)

\* The words of a list of items: texts between two separators are glued
\* into one word; a text makes a word even when it is empty.
RECURSIVE GlueWords(_, _, _, _)
GlueWords(items, cur, inWord, words) ==
    IF items = <<>> THEN (IF inWord THEN Append(words, cur) ELSE words)
    ELSE IF Head(items).sep
         THEN GlueWords(Tail(items), <<>>, FALSE,
                        IF inWord THEN Append(words, cur) ELSE words)
         ELSE GlueWords(Tail(items), cur \o Head(items).txt, TRUE, words)

GluedWords(ps, as) ==
    GlueWords(PieceItems(ps[1]) \o TemplateItems(ps, as, 1), <<>>, FALSE, <<>>)

\* The words when every literal word, every scalar and every sequence
\* element is a word of its own.
RECURSIVE ElemWords(_)
ElemWords(es) == IF es = <<>> THEN <<>> ELSE <<String(es[1])>> \o ElemWords(Tail(es))

ArgWords(a) == IF isArray(a) THEN ElemWords(a.elems) ELSE <<String(a)>>

LiteralWords(p) == GlueWords(PieceItems(p), <<>>, FALSE, <<>>)

RECURSIVE SeparateWordsFrom(_, _, _)
SeparateWordsFrom(ps, as, k) ==
    IF k > Len(as) THEN <<>>
    ELSE ArgWords(as[k]) \o LiteralWords(ps[k + 1]) \o SeparateWordsFrom(ps, as, k + 1)

SeparateWords(ps, as) == LiteralWords(ps[1]) \o SeparateWordsFrom(ps, as, 1)

SingleSpaces(p) == \A k \in 1..(Len(p) - 1) : ~(p[k] = SP /\ p[k + 1] = SP)

isEmptySeq(a) == isArray(a) /\ a.elems = <<>>

\* The precondition of C2: fragments of safe characters and single spaces,
\* arguments that are scalars or non-empty sequences.
C2_Pre ==
    /\ quotePc = "done"
    /\ \A k \in 1..Len(pieces) : SingleSpaces(pieces[k])
    /\ \A k \in 1..Len(args) : ~isEmptySeq(args[k])

\* C2 as stated: the shell reads the compiled command as the literal words
\* plus exactly one word per scalar and one word per sequence element, each
\* equal to String(argument).
C2_OneWordPerArgument_AsStated ==
    C2_Pre => ShellWords(result) = Words(SeparateWords(pieces, args))

\* C2 as amended: no argument changes the tokenization: the shell reads the
\* compiled command as the words that the template's spaces delimit, with
\* String(argument) of every scalar and of every sequence element verbatim
\* and undivided inside exactly one word: a word of its own when the
\* placeholder is delimited by spaces or by the ends of the template, and
\* otherwise glued to the literal text or argument that touches it.
C2_ArgumentsKeepTokenization ==
    C2_Pre => ShellWords(result) = Words(GluedWords(pieces, args))

\* echo ${"$a"} : the argument is a word of its own although it holds a $.
C2_Witness ==
    /\ C2_Pre
    /\ pieces = << <<"a", SP>>, <<>> >>
    /\ args = << Str(<<"$", "a">>) >>
    /\ result = <<"a", SP, SQ, "$", "a", SQ>>
    /\ ShellWords(result) = Words(<< <<"a">>, <<"$", "a">> >>)

\* r(argument) of C4.
RECURSIVE C4_JoinOneSpace(_)
C4_JoinOneSpace(es) ==
    IF es = <<>> THEN <<>>
    ELSE IF Len(es) = 1 THEN quoteString(String(es[1]))
    ELSE quoteString(String(es[1])) \o <<SP>> \o C4_JoinOneSpace(Tail(es))

C4_R(a) == IF isArray(a) THEN C4_JoinOneSpace(a.elems) ELSE quoteString(String(a))

RECURSIVE C4_Concat(_, _, _)
C4_Concat(ps, as, k) ==
    IF k > Len(as) THEN <<>>
    ELSE C4_R(as[k]) \o ps[k + 1] \o C4_Concat(ps, as, k + 1)

\* C4: when no interpolated value is an empty sequence, the compiled command
\* is fragment0 + r(arg0) + fragment1 + ... + r(argN-1) + fragmentN, with
\* r(scalar) = quoteString(String(scalar)) and r(sequence) the quoted
\* elements joined with exactly one space.
C4_Concatenation ==
    (quotePc = "done" /\ \A k \in 1..Len(args) : ~isEmptySeq(args[k]))
        => result = pieces[1] \o C4_Concat(pieces, args, 1)

\* a${["a a", 5]} a : a sequence of two elements between two fragments.
C4_Witness ==
    /\ quotePc = "done"
    /\ pieces = << <<"a">>, <<SP, "a">> >>
    /\ args = << Arr(<<Str(<<"a", SP, "a">>), Num(5)>>) >>
    /\ result = <<"a", SQ, "a", SP, "a", SQ, SP, "5", SP, "a">>

\* x without its k-th character.
DeleteAt(x, k) == SubSeq(x, 1, k - 1) \o SubSeq(x, k + 1, Len(x))

\* What C5 says of one placeholder: acc is the result accumulated so far, a
\* the argument and p the following fragment.
C5_Step(acc, a, p) ==
    IF isEmptySeq(a)
    THEN LET cat == acc \o p
             n == Len(acc)
         IN  IF Len(p) > 0 /\ p[1] = SP THEN DeleteAt(cat, n + 1)
             ELSE IF n > 0 /\ acc[n] = SP THEN DeleteAt(cat, n)
             ELSE cat
    ELSE acc \o C4_R(a) \o p

RECURSIVE C5_Compile(_, _, _)
C5_Compile(ps, as, k) ==
    IF k = 0 THEN ps[1]
    ELSE C5_Step(C5_Compile(ps, as, k - 1), as[k], ps[k + 1])

RECURSIVE SumLen(_)
SumLen(xs) == IF xs = <<>> THEN 0 ELSE Len(Head(xs)) + SumLen(Tail(xs))

NumEmptySeqs(as) == Cardinality({k \in 1..Len(as) : isEmptySeq(as[k])})

\* C5: each empty-sequence argument contributes the empty text and removes
\* at most one space: the first character of the following fragment when
\* that is a space, otherwise the last character of the result so far when
\* that is a space, otherwise nothing; no other character changes, so the
\* command is shorter than the plain concatenation by at most one character
\* per empty sequence.
C5_EmptySequenceRemovesOneSpace ==
    quotePc = "done" =>
        /\ result = C5_Compile(pieces, args, Len(args))
        /\ LET plain == SumLen(pieces)
                          + SumLen([k \in 1..Len(args) |-> C4_R(args[k])])
           IN  /\ Len(result) <= plain
               /\ Len(result) >= plain - NumEmptySeqs(args)

\* a ${[]} a  gives  a a : the space after the placeholder is the one taken.
C5_Witness ==
    /\ quotePc = "done"
    /\ pieces = << <<"a", SP>>, <<SP, "a">> >>
    /\ args = << Arr(<<>>) >>
    /\ result = <<"a", SP, "a">>

\* The text of the template with its placeholders left out.
RECURSIVE Flatten(_)
Flatten(ps) == IF ps = <<>> THEN <<>> ELSE Head(ps) \o Flatten(Tail(ps))

\* The templates of C6: every placeholder holds the empty sequence; a
\* fragment between two placeholders is empty (adjacent placeholders) or
\* has a space at both ends; the first fragment is empty or ends with a
\* word and one space, the last is empty or starts with one space and a
\* word; no fragment holds two spaces in a row.
C6_Pre ==
    /\ quotePc = "done"
    /\ Len(args) >= 1
    /\ \A k \in 1..Len(args) : isEmptySeq(args[k])
    /\ \A k \in 1..Len(pieces) : SingleSpaces(pieces[k])
    /\ LET first == pieces[1]
           last == pieces[Len(pieces)]
       IN  /\ first = <<>> \/ (Len(first) >= 2 /\ first[1] # SP
                                 /\ first[Len(first)] = SP)
           /\ last = <<>> \/ (Len(last) >= 2 /\ last[1] = SP
                                /\ last[Len(last)] # SP)
    /\ \A k \in 2..(Len(pieces) - 1) :
          pieces[k] = <<>> \/ (Len(pieces[k]) >= 3 /\ pieces[k][1] = SP
                                 /\ pieces[k][Len(pieces[k])] = SP)

\* C6: where empty-sequence placeholders sit between two literal words that
\* the template separates by spaces on both sides, the compiled command has
\* exactly one space there, and none at its start or end: the command has
\* the words of the template, no space first or last and no two spaces in a
\* row.
C6_ExactlyOneSpace ==
    C6_Pre =>
        /\ ShellWords(result) = ShellWords(Flatten(pieces))
        /\ result = <<>> \/ (result[1] # SP /\ result[Len(result)] # SP)
        /\ SingleSpaces(result)

----------------------------------------------------------------------------
(* Helpers of the claims about map *)

IsFinalize(e) == e.stage = "finalize"
IsStage(e) == e.stage # "finalize"
IsPre(e) == e.stage = "pre"
IsPost(e) == e.stage = "post"

NodesOf(es) == [k \in 1..Len(es) |-> es[k].node]

\* The layers of the invoked tag function, in attach order.
Chain == IF call.node = 0 THEN <<>> ELSE Path(nodes, call.node)

HasFin(k) == nodes[k].fin
HasPre(k) == nodes[k].pre

\* Every finalizer of the chain has run once, in attach order.
AllFinalizersRan == NodesOf(SelectSeq(log, IsFinalize)) = SelectSeq(Chain, HasFin)

\* No stage of the invocation is logged after a finalizer.
FinalizersLast ==
    \A a, b \in 1..Len(log) : (a < b /\ IsFinalize(log[a])) => IsFinalize(log[b])

\* C7: every invocation of a chained tag function runs the finalize of
\* every layer exactly once, in attach order, after execution and the post
\* stages have ended, whatever the invocation's outcome.
C7_EveryFinalizerOnce ==
    call.pc = "done" => (AllFinalizersRan /\ FinalizersLast)

\* What holds of the finalizers: when no finalize throws, every finalizer
\* of the chain runs once, in attach order, after the other stages, whether
\* the invocation succeeds, the executor fails, a pre or a post throws.
FinalizersRunUnlessOneThrows ==
    (call.pc = "done" /\ \A a \in 1..Len(log) : ~(IsFinalize(log[a]) /\ log[a].raised))
        => (AllFinalizersRan /\ FinalizersLast)

StageLog == SelectSeq(log, IsStage)

Kinds(es) == [k \in 1..Len(es) |-> <<es[k].stage, es[k].node>>]

\* The stages C8 names, for the chain: the pre stages from the last
\* attached layer to the first, the execution, the post stages from the
\* first attached layer to the last.
C8_PreNodes == SelectSeq(Reverse(Chain), HasPre)

C8_Expected ==
    [k \in 1..Len(C8_PreNodes) |-> <<"pre", C8_PreNodes[k]>>]
        \o << <<"exec", 1>> >>
        \o [k \in 1..Len(Chain) |-> <<"post", Chain[k]>>]

\* C8: an invocation compiles the template, applies the pre stages from the
\* last attached layer to the first, each on the output of the one before,
\* executes the resulting command once, then applies the post stages from
\* the first attached layer to the last, each on the result of the one
\* before; no post runs before the execution and no pre after it.
C8_StageOrder ==
    call.node # 0 =>
        LET chain == Chain
            pres == SelectSeq(Reverse(chain), HasPre)
            np == Len(pres)
            expected == C8_Expected
            stages == StageLog
            kinds == Kinds(stages)
        IN
        /\ Len(stages) <= Len(expected)
        /\ \A j \in 1..Len(stages) :
              /\ kinds[j] = expected[j]
              /\ j < Len(stages) => ~stages[j].raised
              /\ j <= np + 1 =>
                    stages[j].input = Compiled \o SubSeq(pres, 1, j - 1)
              /\ j > np + 1 =>
                    stages[j].input = SubSeq(chain, 1, j - np - 2)
        /\ (call.pc = "done" /\ outcome.kind = "returned") =>
              /\ kinds = expected
              /\ outcome.value.cmd = Compiled \o pres
              /\ outcome.value.trail = chain

\* Three layers, each with a pre: the invocation returned after pre 4,
\* pre 3, pre 2, the execution, post 2, post 3, post 4.
C8_Witness ==
    /\ call.pc = "done"
    /\ outcome.kind = "returned"
    /\ Chain = <<2, 3, 4>>
    /\ NodesOf(SelectSeq(log, IsPre)) = <<4, 3, 2>>
    /\ NodesOf(SelectSeq(log, IsPost)) = <<2, 3, 4>>
    /\ outcome.value.cmd = <<0, 4, 3, 2>>

\* The stages before the execution are pre stages, those after it post
\* stages.
Rank(e) == IF IsPre(e) THEN 1 ELSE IF IsPost(e) THEN 3 ELSE 2

PreExecPost ==
    LET stages == StageLog
    IN  \A j \in 1..(Len(stages) - 1) : Rank(stages[j]) <= Rank(stages[j + 1])

\* The positions in the chain of the layers whose stages es are.
AttachedOf(es) ==
    LET chain == Chain
    IN  [j \in 1..Len(es) |-> CHOOSE a \in 1..Len(chain) : chain[a] = es[j].node]

Increasing(x) == \A j \in 1..(Len(x) - 1) : x[j] < x[j + 1]
Decreasing(x) == \A j \in 1..(Len(x) - 1) : x[j] > x[j + 1]

\* C9 as stated: for A attached before B, A's pre runs before B's pre and
\* B's post runs before A's post: the pre stages run in attach order before
\* the execution and the post stages in reverse attach order after it.
C9_PreAttachOrder_AsStated ==
    /\ PreExecPost
    /\ Increasing(AttachedOf(SelectSeq(log, IsPre)))
    /\ Decreasing(AttachedOf(SelectSeq(log, IsPost)))

\* C9 as amended: chaining preserves order the other way round: for A
\* attached before B, both pre stages run before the execution in reverse
\* attach order (B's pre, then A's pre) and both post stages run after it in
\* attach order (A's post, then B's post).
C9_PreReverseAttachOrder ==
    /\ PreExecPost
    /\ Decreasing(AttachedOf(SelectSeq(log, IsPre)))
    /\ Increasing(AttachedOf(SelectSeq(log, IsPost)))

\* A = node 2, B = node 3 = A.map(...): B's pre, A's pre, the execution,
\* A's post, B's post.
C9_Witness ==
    /\ call.pc = "done"
    /\ Chain = <<2, 3>>
    /\ Kinds(StageLog) = << <<"pre", 3>>, <<"pre", 2>>, <<"exec", 1>>,
                            <<"post", 2>>, <<"post", 3>> >>

\* C10: if a post stage throws, no later post stage runs, every finalizer of
\* the chain runs, and only then does the caller receive the failure, which
\* is the one the post threw.
C10_PostFailureAfterFinalizers ==
    /\ outcome.kind # "none" => call.pc = "done"
    /\ call.pc = "done" =>
          \A a \in 1..Len(log) :
              (IsPost(log[a]) /\ log[a].raised) =>
                  /\ \A b \in (a + 1)..Len(log) : ~IsPost(log[b])
                  /\ AllFinalizersRan
                  /\ outcome.kind = "raised"
                  /\ outcome.err = Err("post", log[a].node)

\* What holds of a failing post: when no finalize throws, the failure of
\* the post reaches the caller after every finalizer has run.
PostFailureUnlessFinalizeThrows ==
    (call.pc = "done" /\ \A a \in 1..Len(log) : ~(IsFinalize(log[a]) /\ log[a].raised))
        => \A a \in 1..Len(log) :
              (IsPost(log[a]) /\ log[a].raised) =>
                  /\ \A b \in (a + 1)..Len(log) : ~IsPost(log[b])
                  /\ AllFinalizersRan
                  /\ outcome.kind = "raised"
                  /\ outcome.err = Err("post", log[a].node)

\* C11: an error raised inside a pre, a post or a finalize stage reaches the
\* caller only after all finalizers of the call have run; when the finalize
\* of one layer throws, the finalizers of the layers attached after it
\* still run.
C11_ErrorAfterAllFinalizers ==
    (call.pc = "done" /\ outcome.kind = "raised"
        /\ outcome.err.stage \in {"pre", "post", "finalize"})
        => AllFinalizersRan

\* The stages an invocation has run belong to the layers of the invoked
\* function: no stage of a function derived from it, or of a sibling.
OwnStagesOnly ==
    \A a \in 1..Len(log) :
        log[a].node \in (IF IsStage(log[a]) /\ ~IsPre(log[a]) /\ ~IsPost(log[a])
                         THEN {1}
                         ELSE {Chain[k] : k \in 1..Len(Chain)})

\* What an invocation returns is decided by the layers of the invoked
\* function alone.
OwnResultOnly ==
    (call.pc = "done" /\ outcome.kind = "returned") =>
        /\ outcome.value.trail = Chain
        /\ outcome.value.cmd = Compiled \o SelectSeq(Reverse(Chain), HasPre)

\* A step leaves every tag function built so far as it is, its list of
\* finalizers included.
ReceiverUnchanged ==
    /\ Len(nodes') >= Len(nodes)
    /\ \A k \in 1..Len(nodes) : nodes'[k] = nodes[k]

\* C12: map returns a new tag function and leaves the receiver and its
\* siblings unchanged: building g = f.map(t) does not extend the finalizer
\* list of f, and invoking f, or a function derived from f by another map
\* call, runs none of t's stages and returns what it returned before.
C12_MapLeavesReceiver ==
    /\ [][ReceiverUnchanged]_vars
    /\ [](OwnStagesOnly /\ OwnResultOnly)

\* Node 2 = sh.map(..) is invoked after 3 = node 2 .map(..) and its sibling
\* 4 = sh.map(..) were built, each with a pre and a finalize: the call is
\* about to return having run the finalize of node 2 alone.
C12_Witness ==
    /\ call.pc = "return" /\ call.node = 2 /\ call.err = NoErr
    /\ Len(nodes) = 4
    /\ nodes[2].fin /\ nodes[2].pre
    /\ nodes[3].parent = 2 /\ nodes[3].fin /\ nodes[3].pre
    /\ nodes[4].parent = 1 /\ nodes[4].fin /\ nodes[4].pre
    /\ NodesOf(SelectSeq(log, IsFinalize)) = <<2>>

----------------------------------------------------------------------------
(* Claims about action *)

Depths == 1..Len(frames)
Done(d) == frames[d].pc = "done"

\* The race of frame d was decided by the timer: it fired before the work
\* completed.
TimerFirst(d) == frames[d].race.by = "timer"

\* The error the work of frame d raised before the timer fired, thrown
\* before a promise was returned or as the rejection of the promise;
\* NoError if it raised none.
WorkError(d) ==
    IF frames[d].work = "threw" THEN frames[d].err
    ELSE IF frames[d].race.by = "work" /\ frames[d].race.state = "rejected"
         THEN frames[d].race.err
         ELSE NoError

\* The TimeoutError the call at depth d constructs at line 136.
OwnTimeout(d) == NewError(TimeoutError, "action", d)

\* The lines after the race is decided are run whatever the work does.
Proceeds(d) ==
    ENABLED (TimeoutPromiseReturns(d) \/ ActionGot(d) \/ ActionCatch(d)
                \/ ActionFinally(d))

\* C13: if the timer of an action fires before its work completes, the
\* action ends as TimedOut and throws a TimeoutError to the caller, without
\* waiting for the work to finish and without returning a value of the work.
C13_TimerFirstRaisesTimeout ==
    \A d \in Depths :
        TimerFirst(d) =>
            /\ ~Done(d) => Proceeds(d)
            /\ Done(d) => frames[d].exit = Raised(166, OwnTimeout(d))

\* The timer of the call fired, the caller has the TimeoutError and the
\* work is still running.
C13_Witness ==
    /\ Len(frames) = 1 /\ Done(1) /\ TimerFirst(1)
    /\ frames[1].work = "running"
    /\ frames[1].exit.kind = "raised"
    /\ frames[1].exit.err.cls = TimeoutError

\* C14: if the work raises SkipError before the timer fires, the action
\* ends as Skipped: it returns to the caller, with no value, and does not
\* throw the SkipError again; a SkipError an inner action absorbed does not
\* skip the enclosing action.
C14_SkipReturnsNormally ==
    \A d \in Depths :
        Done(d) =>
            /\ WorkError(d).cls = SkipError => frames[d].exit = Returned(152, Undefined)
            /\ frames[d].exit.line = 152 => WorkError(d) = NewError(SkipError, "work", d)
            /\ frames[d].exit.err.cls # SkipError

\* The inner action was skipped by its work and returned; the work of the
\* enclosing action went on and resolved, and the enclosing action returned
\* its value.
C14_Witness ==
    /\ Len(frames) = 2 /\ Done(1) /\ Done(2)
    /\ WorkError(2).cls = SkipError
    /\ frames[2].exit = Returned(152, Undefined)
    /\ frames[1].exit = Returned(143, "value")

\* C15: if the work raises an error other than SkipError before the timer
\* fires, the action ends as Failed: it throws to the caller the very same
\* error, unchanged and unwrapped.
C15_FailureRethrownUnchanged ==
    \A d \in Depths :
        (Done(d) /\ WorkError(d).cls \notin {"none", SkipError}) =>
            frames[d].exit = Raised(166, WorkError(d))

\* The work of the inner action rejected with a ShellError, the inner
\* action threw it, the work of the enclosing action let it through and the
\* enclosing action threw the same error object.
C15_Witness ==
    /\ Len(frames) = 2 /\ Done(1) /\ Done(2)
    /\ WorkError(2) = NewError(ShellError, "work", 2)
    /\ frames[1].exit = Raised(166, NewError(ShellError, "work", 2))

\* C16: no leaked timer: in every terminal state of an action its timer is
\* not pending, and when the work completes first the timer is cancelled
\* before the action returns or throws.
C16_NoLeakedTimer ==
    \A d \in Depths :
        Done(d) =>
            /\ frames[d].timer # "pending"
            /\ ~frames[d].timeoutId
            /\ frames[d].race.by = "work" => frames[d].timer = "cleared"
            /\ frames[d].work = "threw" => frames[d].timer = "unset"
            /\ TimerFirst(d) => frames[d].timer = "fired"

\* The work rejected before the timer fired and the action threw: the
\* timer was cleared.
C16_Witness ==
    /\ Len(frames) = 1 /\ Done(1)
    /\ frames[1].race.by = "work" /\ frames[1].race.state = "rejected"
    /\ frames[1].exit.kind = "raised"
    /\ frames[1].timer = "cleared"

\* C17: the work function receives a signal when it is started, and when
\* the timer fires first that signal is aborted no later than the moment
\* the TimeoutError is thrown to the caller.
C17_SignalAbortedOnTimeout ==
    \A d \in Depths :
        /\ frames[d].work # "uncalled" => frames[d].signal # "none"
        /\ (Done(d) /\ TimerFirst(d)) => frames[d].signal = "aborted"

\* C18: with verbosity "quiet" an action writes nothing to standard output:
\* no label, no tag, no formatted result, in any outcome.
C18_QuietWritesNothing ==
    \A k \in 1..Len(stdout) : frames[stdout[k].frame].cfg.verbosity # "quiet"

\* How the work of frame d and its timer behaved.
Behaviour(d) ==
    <<frames[d].work, frames[d].race.by, frames[d].race.state, frames[d].race.value,
      WorkError(d).cls>>

\* How the call at depth d ended: by which return or throw, with which
\* value, and with which error (the one of the work, or its own timeout).
Ending(d) ==
    <<frames[d].exit.kind, frames[d].exit.line, frames[d].exit.value,
      IF frames[d].exit.err = NoError THEN "none"
      ELSE IF frames[d].exit.err = OwnTimeout(d) THEN "own timeout"
      ELSE IF frames[d].exit.err = WorkError(d) THEN "error of the work"
      ELSE "another error">>

\* C19: progress reporting never affects control flow or return value: two
\* calls of action with the same behaviour of work and timer, whatever
\* their verbosity and colors, end the same way, with the same value
\* returned or the same error thrown.
C19_ReportingLeavesOutcome ==
    \A d, e \in Depths :
        (Done(d) /\ Done(e) /\ Behaviour(d) = Behaviour(e)) => Ending(d) = Ending(e)

\* Two calls, one verbose and colored, one quiet and uncolored, whose works
\* both rejected with an Error: both threw the error of their work.
C19_Witness ==
    /\ Len(frames) = 2 /\ Done(1) /\ Done(2)
    /\ verbosityOf(frames[1].cfg) # verbosityOf(frames[2].cfg)
    /\ colorsOf(frames[1].cfg) # colorsOf(frames[2].cfg)
    /\ Behaviour(1) = Behaviour(2)
    /\ WorkError(1) = NewError(OtherError, "work", 1)
    /\ WorkError(2) = NewError(OtherError, "work", 2)
    /\ Ending(1) = <<"raised", 166, Undefined, "error of the work">>

----------------------------------------------------------------------------
(* Claims about the executor *)

\* The failures of the transport: the shell cannot be spawned, or an I/O
\* error on its streams.
TransportFailures == {"spawn", "write", "close", "output"}

\* C20: the executor reports a non-zero exit code as a value: an invocation
\* whose subprocess was spawned returns a result carrying the exit code,
\* zero or not, it raises only for failures of the transport, and it never
\* spawns the shell a second time.
C20_NonZeroExitIsAValue ==
    /\ proc.spawns <= 1
    /\ proc.settled # "none" <=> proc.pc = "done"
    /\ (proc.pc = "done" /\ proc.fn = "plain") =>
          /\ proc.settled = "raised" <=> proc.failure \in TransportFailures
          /\ proc.settled = "returned" <=> proc.failure = "none"
          /\ proc.settled = "returned" =>
                /\ proc.spawns = 1
                /\ proc.result.code = proc.exitCode
                /\ proc.result.cmd = proc.cmd

\* The subprocess exited with code 1 after its input was written and
\* closed: the caller received a result with code 1.
C20_Witness ==
    /\ proc.pc = "done" /\ proc.settled = "returned" /\ proc.fn = "plain"
    /\ proc.exitCode = 1 /\ proc.result.code = 1
    /\ proc.stdinWritten # <<>>
    /\ proc.spawns = 1

\* C21: shAction raises a ShellError exactly when the exit code of the
\* executed command is not 0, and the ShellError carries the full result of
\* that execution; when the exit code is 0 it returns the result unchanged.
C21_ShActionRaisesOnNonZero ==
    (proc.pc = "done" /\ proc.fn = "shAction" /\ proc.failure = "none") =>
        /\ proc.settled = "raised" <=> proc.exitCode # 0
        /\ proc.settled = "raised" =>
              /\ proc.error = NewShellError(proc.result)
              /\ proc.value = NoResult
        /\ proc.settled = "returned" =>
              /\ proc.value = proc.result
              /\ proc.error = NoShellError
        /\ proc.result.code = proc.exitCode
        /\ proc.result.cmd = proc.cmd

\* The command exited with code 1 having written to standard output: the
\* caller of shAction received a ShellError holding the result with that
\* output.
C21_Witness ==
    /\ proc.pc = "done" /\ proc.fn = "shAction"
    /\ proc.settled = "raised"
    /\ proc.error.name = "ShellError"
    /\ proc.error.result.code = 1
    /\ proc.error.result.stdout = <<"a">>

\* The payload is in the input pipe, or read by the subprocess, in full
\* before the input is closed; with no payload nothing is written.
WrittenFullyThenClosed ==
    /\ pipe.pc \in {"close", "output", "done"} => pipe.written = pipe.payload.size
    /\ pipe.pc \in {"output", "done"} => ~pipe.inOpen
    /\ pipe.pc \in {"write", "close"} => pipe.inOpen
    /\ ~Supplied(pipe.payload) => pipe.written = 0

\* The executor waits in w.write for room in the input pipe, the subprocess
\* waits for room in the output pipe, and nothing reads the output pipe
\* before cp.output() is called.
WriteBlockedByUnreadOutput ==
    /\ pipe.pc = "write"
    /\ pipe.left > 0
    /\ pipe.inBuf = PipeCapacity
    /\ pipe.toWrite > 0
    /\ pipe.outBuf = PipeCapacity
    /\ pipe.policy \in {"writer", "echo"}

\* C22: standard input cannot deadlock the executor.  A supplied payload is
\* written fully to the input of the subprocess and the input is then
\* closed, without a payload the input is closed at once, and, whatever the
\* size of the payload and the amount of output, with pipes of bounded
\* capacity an invocation whose subprocess exits once its input is at
\* end-of-file and its output is written eventually returns a result.
C22_StdinCannotDeadlock ==
    /\ []WrittenFullyThenClosed
    /\ (pipe.pc # "idle") ~> (pipe.pc = "done")

\* t is v without its leading and trailing whitespace: v is whitespace, t,
\* whitespace, and t neither starts nor ends with whitespace.
IsTrimOf(t, v) ==
    /\ t = <<>> \/ (t[1] \notin WhiteSpace /\ t[Len(t)] \notin WhiteSpace)
    /\ \E a \in 0..Len(v) :
          /\ a + Len(t) <= Len(v)
          /\ \A k \in 1..Len(v) :
                IF k <= a \/ k > a + Len(t) THEN v[k] \in WhiteSpace
                ELSE v[k] = t[k - a]

\* The effective trim option: opt.trim, true when absent.
EffectiveTrim(opt) == opt.trim \in {Undefined, "true"}

TextOf(text, bytes, opt) ==
    IF EffectiveTrim(opt) THEN IsTrimOf(text, decode(bytes)) ELSE text = decode(bytes)

\* C23: in text mode stdout and stderr of the result are the UTF-8
\* decodings of the captured bytes, each trimmed of leading and trailing
\* whitespace on its own when the trim option is true or absent and left
\* as decoded when it is false; trimmed is the effective trim option; exit
\* code, command and elapsed time are those of the binary result; in binary
\* mode the binary result is returned with no trimmed flag.
C23_TextModeDecodesAndTrims ==
    (proc.pc \in {"post", "done"} /\ proc.failure = "none") =>
        /\ proc.result.code = proc.binary.code
        /\ proc.result.cmd = proc.binary.cmd
        /\ proc.result.elapsedMilliseconds = proc.binary.elapsedMilliseconds
        /\ proc.mode = "utf-8" =>
              /\ TextOf(proc.result.stdout, proc.binary.stdout, proc.opt)
              /\ TextOf(proc.result.stderr, proc.binary.stderr, proc.opt)
              /\ proc.result.trimmed = IF EffectiveTrim(proc.opt) THEN "true" ELSE "false"
        /\ proc.mode = "binary" =>
              /\ proc.result = proc.binary
              /\ proc.result.trimmed = Undefined

\* Text mode, trim absent: stdout loses the whitespace around it and keeps
\* the whitespace inside, stderr is only decoded, the elapsed time is kept.
C23_Witness ==
    /\ proc.pc = "done" /\ proc.fn = "plain" /\ proc.failure = "none"
    /\ proc.mode = "utf-8"
    /\ proc.opt.trim = Undefined
    /\ proc.binary.stdout = <<ByteLF, ByteA, ByteSpace, ByteA, ByteSpace>>
    /\ proc.binary.stderr = <<ByteInvalid>>
    /\ proc.result.stdout = <<"a", SP, "a">>
    /\ proc.result.stderr = <<"U+FFFD">>
    /\ proc.result.trimmed = "true"
    /\ proc.binary.elapsedMilliseconds = 7
    /\ proc.result.elapsedMilliseconds = 7

\* The terminal states of the call at depth d, by what its caller received.
Succeeded(d) ==
    /\ frames[d].race.by = "work" /\ frames[d].race.state = "resolved"
    /\ frames[d].exit = Returned(143, frames[d].race.value)
Skipped(d) == frames[d].exit = Returned(152, Undefined)
TimedOut(d) == frames[d].exit = Raised(166, OwnTimeout(d))
Failed(d) ==
    /\ WorkError(d) \notin {NoError, NewError(SkipError, "work", d)}
    /\ frames[d].exit = Raised(166, WorkError(d))

TerminalStates(d) ==
    {st \in {"Succeeded", "Skipped", "TimedOut", "Failed"} :
        \/ st = "Succeeded" /\ Succeeded(d)
        \/ st = "Skipped" /\ Skipped(d)
        \/ st = "TimedOut" /\ TimedOut(d)
        \/ st = "Failed" /\ Failed(d)}

\* The timer of the call at depth d expired before its work completed.
TimerExpiredFirst(d) == frames[d].timer = "fired"

\* Running until done, then exactly one terminal state, that of the first
\* of the two events.
SettlesOnce ==
    \A d \in Depths :
        /\ ~Done(d) => frames[d].exit = NoExit
        /\ Done(d) =>
              /\ Cardinality(TerminalStates(d)) = 1
              /\ TimerExpiredFirst(d) => TimedOut(d)
              /\ ~TimerExpiredFirst(d) =>
                    /\ frames[d].work \in {"threw", "resolved", "rejected"}
                    /\ frames[d].work = "resolved" => Succeeded(d)
                    /\ WorkError(d).cls = SkipError => Skipped(d)
                    /\ WorkError(d).cls \in ErrorClasses \ {SkipError} => Failed(d)

\* What the call at depth d wrote.
LogOf(out, d) == SelectSeq(out, LAMBDA w : w.frame = d)

\* The promise of the work of the call at depth d rejected with nothing
\* subscribed to it.
Unhandled(d) == frames[d].work = "rejected" /\ ~frames[d].raced

\* A step taken after the call at depth d is done leaves what its caller
\* received and what it wrote.
Absorbing(d) ==
    Done(d) =>
        /\ frames'[d].pc = "done"
        /\ frames'[d].exit = frames[d].exit
        /\ LogOf(stdout', d) = LogOf(stdout, d)

\* The work of the call at depth d completes, in whatever way, after the
\* call was reported as timed out: nothing but the state of the work
\* changes.
LateCompletionIgnored(d) ==
    (Done(d) /\ TimerExpiredFirst(d) /\ frames'[d].work # frames[d].work) =>
        /\ frames' = [frames EXCEPT ![d] = [@ EXCEPT !.work = frames'[d].work]]
        /\ stdout' = stdout
        /\ ~Unhandled(d)'

\* C24: every call of action is Running until it settles in exactly one of
\* Succeeded, Skipped, TimedOut and Failed, decided by the first of the
\* completion of the work and the expiry of the timer; a terminal state is
\* absorbing: when the work goes on after TimedOut was reported, its later
\* completion, SkipError or failure changes neither what the caller
\* received nor the log, and is raised nowhere.
C24_TerminalStatesAbsorbing ==
    /\ []SettlesOnce
    /\ [][\A d \in Depths : Absorbing(d) /\ LateCompletionIgnored(d)]_vars

\* The call timed out, the caller has the TimeoutError, and the work went
\* on and failed afterwards.
C24_Witness ==
    /\ Len(frames) = 1 /\ Done(1) /\ TimedOut(1)
    /\ frames[1].work = "rejected"
    /\ verbosityOf(frames[1].cfg) = "verbose"
    /\ Len(stdout) = 2
    /\ stdout[2].item = "TIMEOUT"

\* The tag of a terminal state.
TagOf(st) ==
    CASE st = "Succeeded" -> "OK"
      [] st = "Skipped" -> "SKIPPED"
      [] st = "TimedOut" -> "TIMEOUT"
      [] st = "Failed" -> "ERROR"

Items(out, d) == [k \in 1..Len(LogOf(out, d)) |-> LogOf(out, d)[k].item]

\* What a call at depth d with logging on has written: its label from the
\* start, and once it leaves the try or the catch block the tag of its
\* terminal state, followed by the summary of the result when it throws a
\* ShellError.  terminal is the set of the terminal states of the call.
LoggedAs(d, terminal) ==
    LET f == frames[d]
        ending == IF f.pc = "done" THEN f.exit ELSE f.pending
    IN  /\ f.pc \in {"try", "await", "got", "caught"} => Items(stdout, d) = <<"label">>
        /\ f.pc \in {"finally", "done"} =>
              \E st \in {"Succeeded", "Skipped", "TimedOut", "Failed"} :
                  /\ f.pc = "done" => st \in terminal
                  /\ Items(stdout, d) =
                        IF ending.err.cls = ShellError
                        THEN <<"label", TagOf(st), "result">>
                        ELSE <<"label", TagOf(st)>>

LoggingOn(d) == Truthy(verbosityOf(frames[d].cfg))

\* C25: with logging on, an action writes its label before the work is
\* started and then exactly one outcome tag, that of its terminal state (OK
\* for Succeeded, SKIPPED for Skipped, TIMEOUT for TimedOut, ERROR for
\* Failed); when the failure is a ShellError the summary of its result is
\* written after the tag and before the error is thrown to the caller.
C25_LabelThenMatchingTag ==
    \A d \in Depths : LoggingOn(d) => LoggedAs(d, TerminalStates(d))

\* The same, with a call whose work raised a TimeoutError counted as
\* TimedOut as well as Failed.
TagMatchesUnlessWorkRaisedTimeout ==
    \A d \in Depths :
        LoggingOn(d) =>
            LoggedAs(d, TerminalStates(d) \cup
                           IF WorkError(d).cls = TimeoutError THEN {"TimedOut"} ELSE {})

----------------------------------------------------------------------------
(* Claims about the spans of quoted text *)

NotSpans == [ok |-> FALSE, spans |-> <<>>]

\* The quoted spans of a text, by the quoting grammar of the shell: a single
\* quote opens a span that the next single quote closes, a double quote one
\* that the next double quote closes; a span left open or a character with
\* a meaning of its own is no text of the grammar.
RECURSIVE SpansFrom(_, _, _, _, _)
SpansFrom(t, k, mode, cur, spans) ==
    IF k > Len(t)
    THEN IF mode # "plain" THEN NotSpans ELSE [ok |-> TRUE, spans |-> spans]
    ELSE LET c == t[k] IN
         CASE mode = "single" ->
                IF c = SQ
                THEN SpansFrom(t, k + 1, "plain", <<>>,
                               Append(spans, [kind |-> "single", text |-> cur]))
                ELSE SpansFrom(t, k + 1, "single", Append(cur, c), spans)
           [] mode = "double" ->
                IF c = DQ
                THEN SpansFrom(t, k + 1, "plain", <<>>,
                               Append(spans, [kind |-> "double", text |-> cur]))
                ELSE IF c \in ShellSpecial THEN NotSpans
                ELSE SpansFrom(t, k + 1, "double", Append(cur, c), spans)
           [] OTHER ->
                IF c = SQ THEN SpansFrom(t, k + 1, "single", <<>>, spans)
                ELSE IF c = DQ THEN SpansFrom(t, k + 1, "double", <<>>, spans)
                ELSE IF c \in ShellSpecial THEN NotSpans
                ELSE SpansFrom(t, k + 1, "plain", <<>>, spans)

Spans(t) == SpansFrom(t, 1, "plain", <<>>, <<>>)

OnlySingleQuotes(t) == t # <<>> /\ \A k \in 1..Len(t) : t[k] = SQ

\* C26: quoteString leaves no empty quoted span: for every non-empty text,
\* the result read by the quoting grammar of the shell has no empty
\* single-quoted or double-quoted span, also when the text starts or ends
\* with a single quote; and a text of n >= 1 single quotes and nothing else
\* becomes one double-quoted span: a double quote, the text, a double quote.
C26_NoEmptySpan ==
    (qsPc = "done" /\ s # <<>>) =>
        /\ Spans(quoted).ok
        /\ \A k \in 1..Len(Spans(quoted).spans) : Spans(quoted).spans[k].text # <<>>
        /\ OnlySingleQuotes(s) => quoted = <<DQ>> \o s \o <<DQ>>

\* ''x' : the text starts and ends with single quotes and has three spans.
C26_Witness ==
    /\ qsPc = "done"
    /\ s = <<SQ, SQ, SP, SQ>>
    /\ quoted = <<DQ, SQ, SQ, DQ, SQ, SP, SQ, DQ, SQ, DQ>>
    /\ Len(Spans(quoted).spans) = 3

----------------------------------------------------------------------------
(* Claims about invocations in flight together *)

ChainOf(inv) == Path(nodes, calls[inv].node)
LogOfCall(inv) == calls[inv].log

\* The command a stage of invocation inv should see after the pre stages
\* of the layers ks were applied to its compiled command.
RECURSIVE Applied(_, _)
Applied(cmd, ks) == IF ks = <<>> THEN cmd ELSE Applied(preOf(Head(ks), cmd), Tail(ks))

\* Every pre stage of invocation inv was applied to the command the stages
\* before it made of the command compiled in this invocation, and so was
\* the executor.
PreOnOwnCommand(inv) ==
    LET es == SelectSeq(LogOfCall(inv), LAMBDA e : e.stage \in {"pre", "exec"})
        pres == SelectSeq(LogOfCall(inv), IsPre)
    IN  \A a \in 1..Len(es) :
            es[a].input = Applied(CompiledOf(inv), NodesOf(SubSeq(pres, 1, a - 1)))

\* Every post stage of invocation inv was applied to what the post stages
\* before it made of the result of the execution of this invocation.
PostOnOwnResult(inv) ==
    LET posts == SelectSeq(LogOfCall(inv), IsPost)
        execs == SelectSeq(LogOfCall(inv), LAMBDA e : e.stage = "exec")
    IN  \A a \in 1..Len(posts) :
            /\ Len(execs) = 1
            /\ posts[a].input.cmd = execs[1].input
            /\ posts[a].input.trail = NodesOf(SubSeq(posts, 1, a - 1))

\* Every finalizer of the chain ran once in invocation inv, in attach
\* order, after every other stage of the invocation.
FinalizersOnceAfterOwnStages(inv) ==
    /\ NodesOf(SelectSeq(LogOfCall(inv), IsFinalize)) = SelectSeq(ChainOf(inv), HasFin)
    /\ \A a, b \in 1..Len(LogOfCall(inv)) :
          (a < b /\ IsFinalize(LogOfCall(inv)[a])) => IsFinalize(LogOfCall(inv)[b])

\* The two invocations are of one tag function and were in flight together.
Overlapping ==
    /\ calls[1].node = calls[2].node
    /\ calls[1].overlapped /\ calls[2].overlapped

\* C27: invocations of a mapped tag function share no state of an
\* invocation: of two overlapping invocations of one chain, however their
\* stages interleave, each applies its pre stages to its own compiled
\* command, its post stages to its own result, and runs every finalizer of
\* the chain exactly once after its own execution has ended, whatever the
\* progress or failure of the other.
C27_InvocationsShareNothing ==
    Overlapping =>
        \A inv \in Invocations :
            /\ PreOnOwnCommand(inv)
            /\ PostOnOwnResult(inv)
            /\ calls[inv].pc = "done" => FinalizersOnceAfterOwnStages(inv)

NoFinalizeRaised(inv) ==
    \A a \in 1..Len(LogOfCall(inv)) :
        ~(IsFinalize(LogOfCall(inv)[a]) /\ LogOfCall(inv)[a].raised)

\* What holds of overlapping invocations: each works on its own command and
\* result, and runs every finalizer once unless one of its own finalizers
\* throws; a finalizer that throws in the other invocation changes nothing.
OwnStateUnlessOwnFinalizeThrows ==
    Overlapping =>
        \A inv \in Invocations :
            /\ PreOnOwnCommand(inv)
            /\ PostOnOwnResult(inv)
            /\ (calls[inv].pc = "done" /\ NoFinalizeRaised(inv))
                  => FinalizersOnceAfterOwnStages(inv)

\* A step of one invocation leaves the other as it is.
OneInvocationPerStep ==
    [][\A inv \in Invocations :
          (calls'[inv] # calls[inv] /\ calls[inv].pc # "idle" /\ calls[Other(inv)].pc # "idle")
              => calls'[Other(inv)] = calls[Other(inv)]]_vars

\* Two invocations overlapped; a finalizer of the second threw, the first
\* ran all its finalizers and returned.
OtherFinalizeThrew ==
    /\ Overlapping
    /\ calls[1].pc = "done" /\ calls[2].pc = "done"
    /\ Len(ChainOf(1)) = 2
    /\ ~NoFinalizeRaised(2)
    /\ NoFinalizeRaised(1)
    /\ calls[1].outcome.kind = "returned"
    /\ Len(SelectSeq(LogOfCall(1), IsFinalize)) = 2

----------------------------------------------------------------------------
(* Claims about the spinner *)

SpinnerCalls == {inv \in Invocations : spin.calls[inv].pc # "idle"}

TimerPending == spin.pending # {}

\* What the claim says of the calls of a wrapped tag function: the pre
\* stage starts the timer, which is pending while the call is in flight;
\* once the calls made have settled no timer is pending; and finalize has
\* printed the EXCEPTION line, once, exactly for the calls that ended
\* without the post stage of the spinner.
SpinnerContract ==
    /\ \A inv \in SpinnerCalls :
          /\ spin.calls[inv].started
          /\ SpinnerInFlight(spin.calls[inv]) =>
                (TimerPending /\ spin.timeout \in spin.pending)
          /\ spin.calls[inv].pc = "done" =>
                spin.calls[inv].exceptions = IF spin.calls[inv].postRan THEN 0 ELSE 1
    /\ (\A inv \in Invocations : ~SpinnerInFlight(spin.calls[inv])) =>
          (~TimerPending /\ spin.timeout = NoTimer)
    /\ Cardinality(spin.pending) <= 1

\* C28: with at most one call of a tag function wrapped by
\* wrapWithSpinnerPrinter in flight, the pre stage starts the spinner
\* timer, no timer is pending when the call has settled (success, executor
\* failure or an inner post that throws), and finalize prints the EXCEPTION
\* line exactly when the call ended without the post stage of the spinner.
\* (With two calls in flight it does not hold: SpinnerContractBroken.)
C28_SpinnerOneCallInFlight == ~spin.overlapped => SpinnerContract

\* Two calls made one after the other: the first returned, the inner post
\* of the second threw and finalize printed the EXCEPTION line; the timer
\* fired in between and none is pending.
C28_Witness ==
    /\ ~spin.overlapped
    /\ spin.calls[1].settled = "returned" /\ spin.calls[1].exceptions = 0
    /\ spin.calls[2].settled = "raised" /\ spin.calls[2].failure = "inner post"
    /\ spin.calls[2].exceptions = 1
    /\ spin.frame # 0
    /\ ~TimerPending

\* Two calls were in flight together and one of them ended without the
\* post stage of the spinner and without the EXCEPTION line: the post of
\* the other call had stopped the timer they share.
SpinnerContractBroken ==
    /\ spin.overlapped
    /\ \E inv \in Invocations :
          /\ spin.calls[inv].pc = "done"
          /\ ~spin.calls[inv].postRan
          /\ spin.calls[inv].exceptions = 0

----------------------------------------------------------------------------
(* Claims about the words around a placeholder *)

NumWords(t) == Len(ShellWords(t).words)

\* A sequence of one element, a safe word.
OneWord == Arr(<<Str(<<"a">>)>>)

\* The template up to placeholder k, and the template after it, compiled
\* on their own.
TextBefore(k) == quote(SubSeq(pieces, 1, k), SubSeq(args, 1, k - 1))
TextAfter(k) == quote(SubSeq(pieces, k + 1, Len(pieces)), SubSeq(args, k + 1, Len(args)))

\* The words of the text before and after placeholder k stay apart in the
\* command cmd: no word of the one is joined with a word of the other.
KeptApart(k, cmd) ==
    /\ ShellWords(cmd).ok
    /\ NumWords(cmd) >= NumWords(TextBefore(k)) + NumWords(TextAfter(k))

\* There is text before and after placeholder k, and a non-empty sequence
\* in its place leaves the two in different words.
ApartWithNonEmpty(k) ==
    /\ ShellWords(TextBefore(k)).ok /\ NumWords(TextBefore(k)) > 0
    /\ ShellWords(TextAfter(k)).ok /\ NumWords(TextAfter(k)) > 0
    /\ KeptApart(k, quote(pieces, [args EXCEPT ![k] = OneWord]))

\* C29: an empty-sequence argument never joins two literal words: if the
\* template compiled with a non-empty sequence in its place leaves the text
\* before and the text after the placeholder in different shell words, so
\* does the template compiled with the empty sequence.
C29_EmptySequenceJoinsNoWords ==
    quotePc = "done" =>
        \A k \in 1..Len(args) :
            (isEmptySeq(args[k]) /\ ApartWithNonEmpty(k)) => KeptApart(k, result)

\* What holds instead: the words stay apart when the empty sequence is the
\* only one of the template and has a space on both sides.
ApartWhenSpacesOnBothSides ==
    quotePc = "done" =>
        \A k \in 1..Len(args) :
            (/\ isEmptySeq(args[k]) /\ ApartWithNonEmpty(k)
             /\ NumEmptySeqs(args) = 1
             /\ pieces[k] # <<>> /\ pieces[k][Len(pieces[k])] = SP
             /\ pieces[k + 1] # <<>> /\ pieces[k + 1][1] = SP)
                => KeptApart(k, result)

----------------------------------------------------------------------------
(* Claims about sequences of empty strings *)

SeqArgs == {k \in 1..Len(args) : isArray(args[k])}

\* The text of the elements of a sequence argument, as String gives it.
ElementTexts(a) == [k \in 1..Len(a.elems) |-> String(a.elems[k])]

\* The test of line 274 on the argument a.
TreatedAsEmpty(a) == Len(quoteArray(a)) = 0

\* Placeholder k is set off from the literal text: a space or the end of
\* the template on each side.
SetOff(k) ==
    /\ pieces[k] = <<>> \/ pieces[k][Len(pieces[k])] = SP
    /\ pieces[k + 1] = <<>> \/ pieces[k + 1][1] = SP

\* C30: quote treats a sequence argument as empty, and absorbs a space for
\* it, if and only if the sequence has no element: a sequence of empty
\* strings gives one '' per element, and the shell reads what a sequence is
\* compiled to as one word per element, the text of that element.
C30_EmptyOnlyWithoutElements ==
    quotePc = "done" =>
        /\ \A k \in SeqArgs :
              /\ TreatedAsEmpty(args[k]) <=> args[k].elems = <<>>
              /\ ShellWords(quoteArray(args[k])) = Words(ElementTexts(args[k]))
              /\ NumWords(quoteArray(args[k])) = Len(args[k].elems)
        /\ (\A k \in SeqArgs : args[k].elems # <<>>) =>
              Len(result) = SumLen(pieces) + SumLen([k \in 1..Len(args) |-> C4_R(args[k])])
        /\ (Len(args) = 1 /\ SeqArgs = {1} /\ SetOff(1) /\ args[1].elems # <<>>) =>
              NumWords(result) = NumWords(Flatten(pieces)) + Len(args[1].elems)

\* a ${["'", ""]} a : two elements, one of them the empty string, give two
\* words and no space is absorbed.
C30_Witness ==
    /\ quotePc = "done"
    /\ pieces = << <<"a", SP>>, <<SP, "a">> >>
    /\ args = << Arr(<<Str(<<SQ>>), Str(<<>>)>>) >>
    /\ result = <<"a", SP, DQ, SQ, DQ, SP, SQ, SQ, SP, "a">>
    /\ NumWords(result) = 4

----------------------------------------------------------------------------
(* Claims about the origin of a timeout *)

\* The call at depth d reported a timeout: it wrote the TIMEOUT tag and
\* threw a TimeoutError to its caller.
ReportedTimeout(d) ==
    /\ Done(d)
    /\ frames[d].exit.kind = "raised"
    /\ frames[d].exit.err.cls = TimeoutError
    /\ \E k \in 1..Len(Items(stdout, d)) : Items(stdout, d)[k] = "TIMEOUT"

\* C31: an action raises TimeoutError to its caller and writes the TIMEOUT
\* tag only if its own timer fired before its work completed; an error
\* raised by the work itself, the error of a nested action included, is
\* never reported as the timeout of this action.
C31_TimeoutOnlyWhenOwnTimerFired ==
    \A d \in Depths :
        ReportedTimeout(d) =>
            /\ TimerExpiredFirst(d)
            /\ frames[d].exit.err = OwnTimeout(d)

\* What the code does keep: a reported timeout is either the expiry of the
\* timer of the call itself or a TimeoutError its work raised first, and an
\* expired timer is always reported.
TimeoutReportedForAnyTimeoutError ==
    \A d \in Depths :
        /\ ReportedTimeout(d) =>
              \/ TimerExpiredFirst(d) /\ frames[d].exit.err = OwnTimeout(d)
              \/ /\ ~TimerExpiredFirst(d)
                 /\ WorkError(d).cls = TimeoutError
                 /\ frames[d].exit.err = WorkError(d)
        /\ (Done(d) /\ TimerExpiredFirst(d)) => ReportedTimeout(d)

\* The timer of a nested call expired and the call around it, whose own
\* timer never fired, reported a timeout.
NestedTimeoutReportedByCaller ==
    /\ Len(frames) = 2
    /\ ReportedTimeout(2) /\ TimerExpiredFirst(2)
    /\ ReportedTimeout(1) /\ frames[1].timer # "fired"
    /\ frames[1].exit.err = OwnTimeout(2)

----------------------------------------------------------------------------
(* Claims about the command of a result *)

\* The arguments configured for the shell.
ConfiguredArgs(opt) ==
    IF opt.shellArgs = Undefined THEN << <<"-", "c">> >> ELSE opt.shellArgs

\* The layers of a chain that have a pre stage, the last attached first.
PreLayers(pres) == SelectSeq(Reverse([k \in 1..Len(pres) |-> k]), LAMBDA k : pres[k])

\* The command quote returned after the pre stages of the layers, from
\* position k on, were applied in that order.
RECURSIVE AfterPres(_, _, _)
AfterPres(layers, k, cmd) ==
    IF k > Len(layers) THEN cmd
    ELSE AfterPres(layers, k + 1, preText(layers[k], cmd))

\* The command a call of the tag function hands to the shell.
HandedToShell(p) ==
    IF p.fn = "plain" THEN p.q ELSE AfterPres(PreLayers(p.pres), 1, p.q)

\* C32: the cmd field of a result is exactly the command string the shell
\* was handed as its final argument, after the configured shell arguments:
\* for a plain tag function the compiled command, for a chain built with
\* map the compiled command after every pre stage of the chain was
\* applied, not the command as first compiled.
C32_CmdIsFinalShellArgument ==
    (proc.pc \in {"post", "done"} /\ proc.failure = "none") =>
        /\ proc.spawns = 1
        /\ proc.argv = Append(ConfiguredArgs(proc.opt), proc.result.cmd)
        /\ proc.result.cmd = HandedToShell(proc)
        /\ proc.binary.cmd = proc.result.cmd
        /\ (proc.settled = "returned") => proc.value.cmd = proc.result.cmd
        /\ (proc.settled = "raised") => proc.error.result.cmd = proc.result.cmd

\* A chain of two layers, each with a pre stage, on a function configured
\* with shell arguments returned a result: its command is not the one
\* first compiled.
C32_Witness ==
    /\ proc.pc = "done" /\ proc.settled = "returned" /\ proc.fn = "mapped"
    /\ proc.pres = <<TRUE, TRUE>>
    /\ proc.opt.shellArgs # Undefined
    /\ proc.q = <<"a", SP, "b">>
    /\ proc.value.cmd = <<"a", SP, "b", SP, "-", "b", SP, "-", "a">>
    /\ proc.argv = << <<"-", "e">>, <<"-", "c">>, proc.value.cmd >>

====
